---- MODULE Spec2Model ----
(***************************************************************************)
(* Lean consensus core of ream: the LeanState state transition             *)
(* (crates/common/consensus/lean/src/state.rs) and the fork-choice store   *)
(* (crates/common/fork_choice/lean/src/store.rs) over its redb tables      *)
(* (crates/storage/src/tables/lean).                                       *)
(*                                                                         *)
(* A B256 root is a natural number; ZERO is B256::ZERO.  tree_hash_root is *)
(* injective: `hashes` lists the preimages hashed so far and the root of   *)
(* a preimage is its position in the list, so roots compare as numbers.    *)
(***************************************************************************)
EXTENDS Integers, Sequences, FiniteSets, TLC

VARIABLES
    hashes,             \* preimages of the roots handed out so far
    state,              \* the LeanState driven by process_slots / process_block
    result,             \* what the last operation was and how it ended
    used,               \* how much of the input budgets is spent
    block,              \* table lean_block: root -> SignedBlockWithAttestation
    lean_state,         \* table lean_state: root -> LeanState
    slot_index,         \* table slot_index: slot -> root
    state_root_index,   \* table lean_state_root_index: state root -> block root
    latest_known,       \* table latest_known_attestation: validator -> SignedAttestation
    latest_new,         \* table lean_latest_new_attestations
    latest_justified,   \* field latest_justified
    latest_finalized,   \* field latest_finalized
    head,               \* field lean_head
    safe_target,        \* field lean_safe_target
    time,               \* field lean_time (ticks)
    chain,              \* LeanChainService: loop state, inbox, outbound gossip
    validator,          \* ValidatorService: loop state, keystores, pending reply
    writer              \* the on_block call whose inserts are under way, if any

storeVars == <<block, lean_state, slot_index, state_root_index, latest_known,
               latest_new, latest_justified, latest_finalized, head,
               safe_target, time>>
serviceVars == <<chain, validator, writer>>
vars == <<hashes, state, result, used, block, lean_state, slot_index,
          state_root_index, latest_known, latest_new, latest_justified,
          latest_finalized, head, safe_target, time, chain, validator, writer>>

(***************************************************************************)
(* Bounds of the model and constants of the program.                       *)
(***************************************************************************)
NumValidators == 3      \* validators in the genesis state
MaxSlot == 3            \* greatest slot of a block or of process_slots
MaxBodyLen == 2         \* attestations in one block body
MaxBlocks == 3          \* blocks inserted after the anchor
MaxVoteBlocks == 2      \* blocks with attestations given to process_block
MaxSteps == 3           \* store operations that change the store

SECONDS_PER_SLOT == 4
INTERVALS_PER_SLOT == 4
ZERO == 0

Validators == 0 .. (NumValidators - 1)

(***************************************************************************)
(* tree_hash_root                                                          *)
(***************************************************************************)
Known(reg, x) == \E i \in 1 .. Len(reg) : reg[i] = x

\* the root of preimage x; a preimage not hashed before gets the next root
tree_hash_root(reg, x) ==
    IF Known(reg, x) THEN CHOOSE i \in 1 .. Len(reg) : reg[i] = x
    ELSE Len(reg) + 1

\* the list of preimages after x has been hashed
Hashed(reg, x) == IF Known(reg, x) THEN reg ELSE Append(reg, x)

Checkpoint(root, slot) == [root |-> root, slot |-> slot]

BlockBody(atts) == [attestations |-> atts]

\* From<Block> for BlockHeader: a block and its header have the same root
HeaderOf(reg, b) ==
    [slot |-> b.slot, proposer_index |-> b.proposer_index,
     parent_root |-> b.parent_root, state_root |-> b.state_root,
     body_root |-> tree_hash_root(reg, b.body)]

block_root(reg, b) == tree_hash_root(Hashed(reg, b.body), HeaderOf(reg, b))

block_hashed(reg, b) == Hashed(Hashed(reg, b.body), HeaderOf(reg, b))

(***************************************************************************)
(* LeanState                                                               *)
(***************************************************************************)
EmptyBody == BlockBody(<<>>)

generate_genesis ==
    [slot |-> 0,
     latest_block_header |->
        [slot |-> 0, proposer_index |-> 0, parent_root |-> ZERO,
         state_root |-> ZERO, body_root |-> tree_hash_root(<<>>, EmptyBody)],
     latest_justified |-> Checkpoint(ZERO, 0),
     latest_finalized |-> Checkpoint(ZERO, 0),
     historical_block_hashes |-> <<>>,
     justified_slots |-> <<>>,
     justifications_roots |-> <<>>,
     justifications_validators |-> <<>>]

\* a proposer check that passes every validator
is_proposer_Always(validator_index, slot, validator_count) == TRUE

is_proposer(validator_index, slot, validator_count) ==
    slot % validator_count = validator_index

IsSquare(n) == \E k \in 0 .. n : k * k = n

\* "fail" stands for the violated requirement candidate_slot >= finalized_slot
is_justifiable_slot(finalized_slot, candidate_slot) ==
    IF candidate_slot < finalized_slot THEN "fail"
    ELSE LET delta == candidate_slot - finalized_slot IN
         IF \/ delta <= 5
            \/ IsSquare(delta)
            \/ (IsSquare(4 * delta + 1) /\
                (\E k \in 0 .. (4 * delta + 1) : k * k = 4 * delta + 1 /\ k % 2 = 1))
         THEN "yes" ELSE "no"

\* BitList::get and VariableList::get answer only below the length
InRange(list, i) == i + 1 <= Len(list)

RECURSIVE SortedRoots(_)
SortedRoots(S) ==
    IF S = {} THEN <<>>
    ELSE LET m == CHOOSE r \in S : \A q \in S : r <= q
         IN <<m>> \o SortedRoots(S \ {m})

RECURSIVE Flatten(_, _)
Flatten(roots, jm) ==
    IF roots = <<>> THEN <<>>
    ELSE jm[Head(roots)] \o Flatten(Tail(roots), jm)

\* root -> BitList, inflated from the two flat fields
get_justifications(st) ==
    LET roots == st.justifications_roots
        keys == {roots[i] : i \in 1 .. Len(roots)}
        last(r) == CHOOSE i \in 1 .. Len(roots) :
                      roots[i] = r /\ \A j \in 1 .. Len(roots) : roots[j] = r => j <= i
    IN [r \in keys |->
          SubSeq(st.justifications_validators,
                 (last(r) - 1) * NumValidators + 1, last(r) * NumValidators)]

with_justifications(st, jm) ==
    LET roots == SortedRoots(DOMAIN jm) IN
    [st EXCEPT !.justifications_roots = roots,
               !.justifications_validators = Flatten(roots, jm)]

\* a count of the bits of the row, set or not
CountBits_Len(bits) == Len(bits)

CountBits(bits) == Cardinality({i \in 1 .. Len(bits) : bits[i]})

RECURSIVE process_slots_loop(_, _, _)
process_slots_loop(reg, st, target_slot) ==
    IF st.slot < target_slot
    THEN IF st.latest_block_header.state_root = ZERO
         THEN process_slots_loop(
                Hashed(reg, st),
                [st EXCEPT !.latest_block_header.state_root = tree_hash_root(reg, st),
                           !.slot = st.slot + 1],
                target_slot)
         ELSE process_slots_loop(reg, [st EXCEPT !.slot = st.slot + 1], target_slot)
    ELSE [ok |-> TRUE, err |-> "none", st |-> st, reg |-> reg]

\* process_slots without the ensure! on the target slot
process_slots_NoGuard(reg, st, target_slot) ==
    process_slots_loop(reg, st, target_slot)

\* err names the check that failed, "none" on Ok
process_slots(reg, st, target_slot) ==
    IF ~(st.slot < target_slot)
    THEN [ok |-> FALSE, err |-> "target slot", st |-> st, reg |-> reg]
    ELSE process_slots_loop(reg, st, target_slot)

\* HeaderError without the check that the block is for the current slot
HeaderError_NoSlotCheck(reg, st, b) ==
    IF ~(b.slot > st.latest_block_header.slot) THEN "older"
    ELSE IF ~is_proposer(b.proposer_index, st.slot, NumValidators) THEN "proposer"
    ELSE IF b.parent_root # tree_hash_root(reg, st.latest_block_header) THEN "parent"
    ELSE "none"

\* the header checks of process_block_header, in the order of the code
HeaderError(reg, st, b) ==
    IF b.slot # st.slot THEN "slot"
    ELSE IF ~(b.slot > st.latest_block_header.slot) THEN "older"
    ELSE IF ~is_proposer(b.proposer_index, st.slot, NumValidators) THEN "proposer"
    ELSE IF b.parent_root # tree_hash_root(reg, st.latest_block_header) THEN "parent"
    ELSE "none"

RECURSIVE Zeros(_, _)
Zeros(n, z) == IF n <= 0 THEN <<>> ELSE <<z>> \o Zeros(n - 1, z)

\* process_block_header that grows justified_slots by the parent's bit only,
\* not by the bits of the empty slots
process_block_header_NoEmptyBits(reg, st, b) ==
    LET refused(err) == [ok |-> FALSE, err |-> err, st |-> st, reg |-> reg] IN
    IF HeaderError(reg, st, b) # "none" THEN refused(HeaderError(reg, st, b))
    ELSE
      LET reg1 == Hashed(reg, st.latest_block_header)
          first == st.latest_block_header.slot = 0
          num_empty_slots == b.slot - st.latest_block_header.slot - 1
          st1 == IF first
                 THEN [st EXCEPT !.latest_justified.root = b.parent_root,
                                 !.latest_finalized.root = b.parent_root]
                 ELSE st
          st2 == [st1 EXCEPT
                    !.historical_block_hashes =
                        Append(st.historical_block_hashes, b.parent_root)
                        \o Zeros(num_empty_slots, ZERO),
                    !.justified_slots = Append(st.justified_slots, first),
                    !.latest_block_header =
                        [slot |-> b.slot, proposer_index |-> b.proposer_index,
                         parent_root |-> b.parent_root, state_root |-> ZERO,
                         body_root |-> tree_hash_root(reg1, b.body)]]
      IN [ok |-> TRUE, err |-> "none", st |-> st2, reg |-> Hashed(reg1, b.body)]

process_block_header(reg, st, b) ==
    LET refused(err) == [ok |-> FALSE, err |-> err, st |-> st, reg |-> reg] IN
    IF HeaderError(reg, st, b) # "none" THEN refused(HeaderError(reg, st, b))
    ELSE
      LET reg1 == Hashed(reg, st.latest_block_header)
          first == st.latest_block_header.slot = 0
          num_empty_slots == b.slot - st.latest_block_header.slot - 1
          st1 == IF first
                 THEN [st EXCEPT !.latest_justified.root = b.parent_root,
                                 !.latest_finalized.root = b.parent_root]
                 ELSE st
          st2 == [st1 EXCEPT
                    !.historical_block_hashes =
                        Append(st.historical_block_hashes, b.parent_root)
                        \o Zeros(num_empty_slots, ZERO),
                    !.justified_slots =
                        Append(st.justified_slots, first)
                        \o Zeros(num_empty_slots, FALSE),
                    !.latest_block_header =
                        [slot |-> b.slot, proposer_index |-> b.proposer_index,
                         parent_root |-> b.parent_root, state_root |-> ZERO,
                         body_root |-> tree_hash_root(reg1, b.body)]]
      IN [ok |-> TRUE, err |-> "none", st |-> st2, reg |-> Hashed(reg1, b.body)]

\* the search for a justifiable slot, begun at the source slot itself
AnyJustifiable_FromSource(finalized_slot, lo, hi) ==
    IF is_justifiable_slot(finalized_slot, lo - 1) = "yes" THEN "yes"
    ELSE IF \E s \in lo .. (hi - 1) : is_justifiable_slot(finalized_slot, s) = "yes"
         THEN "yes"
    ELSE "no"

\* (source.slot + 1 .. target.slot).any(is_justifiable_slot), left to right
RECURSIVE AnyJustifiable(_, _, _)
AnyJustifiable(finalized_slot, lo, hi) ==
    IF lo >= hi THEN "no"
    ELSE LET r == is_justifiable_slot(finalized_slot, lo) IN
         IF r = "no" THEN AnyJustifiable(finalized_slot, lo + 1, hi) ELSE r

\* one turn of the loop of process_attestations on accumulator
\* [st, jm, status]; status is "run", "err" (Err returned) or "panic"
AttestationStep(acc, att) ==
    LET st == acc.st
        jm == acc.jm
        source == att.data.source
        target == att.data.target
        skip == acc
        fail(kind) == [acc EXCEPT !.status = kind]
    IN
    IF ~InRange(st.justified_slots, source.slot) THEN fail("err")
    ELSE IF ~st.justified_slots[source.slot + 1] THEN skip
    ELSE IF ~InRange(st.justified_slots, target.slot) THEN fail("err")
    ELSE IF st.justified_slots[target.slot + 1] THEN skip
    ELSE IF ~InRange(st.historical_block_hashes, source.slot) THEN fail("err")
    ELSE IF source.root # st.historical_block_hashes[source.slot + 1] THEN skip
    ELSE IF ~InRange(st.historical_block_hashes, target.slot) THEN fail("err")
    ELSE IF target.root # st.historical_block_hashes[target.slot + 1] THEN skip
    ELSE IF target.slot <= source.slot THEN skip
    ELSE IF is_justifiable_slot(st.latest_finalized.slot, target.slot) = "fail"
         THEN fail("panic")
    ELSE IF is_justifiable_slot(st.latest_finalized.slot, target.slot) = "no" THEN skip
    ELSE IF ~(att.validator_id < NumValidators) THEN fail("err")
    ELSE
      LET old == IF target.root \in DOMAIN jm THEN jm[target.root]
                 ELSE Zeros(NumValidators, FALSE)
          justifications == [old EXCEPT ![att.validator_id + 1] = TRUE]
          count == CountBits(justifications)
          jm1 == [r \in (DOMAIN jm) \cup {target.root} |->
                    IF r = target.root THEN justifications ELSE jm[r]]
      IN
      IF 3 * count >= 2 * NumValidators
      THEN
        LET st1 == [st EXCEPT !.latest_justified = target,
                              !.justified_slots[target.slot + 1] = TRUE]
            jm2 == [r \in (DOMAIN jm1) \ {target.root} |-> jm1[r]]
            between == AnyJustifiable(st.latest_finalized.slot,
                                      source.slot + 1, target.slot)
        IN
        IF between = "fail" THEN [st |-> st1, jm |-> jm2, status |-> "panic"]
        ELSE IF between = "no"
             THEN [st |-> [st1 EXCEPT !.latest_finalized = source],
                   jm |-> jm2, status |-> "run"]
        ELSE [st |-> st1, jm |-> jm2, status |-> "run"]
      ELSE [st |-> st, jm |-> jm1, status |-> "run"]

RECURSIVE AttestationLoop(_, _)
AttestationLoop(acc, atts) ==
    IF atts = <<>> \/ acc.status # "run" THEN acc
    ELSE AttestationLoop(AttestationStep(acc, Head(atts)), Tail(atts))

\* on Err or panic the state keeps what the loop had written so far
process_attestations(st, atts) ==
    LET done(end) ==
          IF end.status = "run"
          THEN [ok |-> TRUE, err |-> "none", st |-> with_justifications(end.st, end.jm)]
          ELSE [ok |-> FALSE, err |-> end.status, st |-> end.st]
    IN done(AttestationLoop(
              [st |-> st, jm |-> get_justifications(st), status |-> "run"], atts))

process_block(reg, st, b) ==
    LET attested(h, a) == [ok |-> a.ok, err |-> a.err, st |-> a.st, reg |-> h.reg]
        headed(h) ==
          IF ~h.ok THEN h
          ELSE attested(h, process_attestations(h.st, b.body.attestations))
    IN headed(process_block_header(reg, st, b))

\* a state root check that passes every block
state_root_matches_Any(reg, b, st) == TRUE

\* the last ensure! of state_transition
state_root_matches(reg, b, st) == b.state_root = tree_hash_root(reg, st)

state_transition(reg, st, b, valid_signatures) ==
    IF ~valid_signatures
    THEN [ok |-> FALSE, err |-> "signatures", st |-> st, reg |-> reg]
    ELSE
      LET rooted(p, matches) ==
            [ok |-> matches, err |-> IF matches THEN "none" ELSE "state root",
             st |-> p.st, reg |-> Hashed(p.reg, p.st)]
          processed(p) ==
            IF ~p.ok THEN p ELSE rooted(p, state_root_matches(p.reg, b, p.st))
          advanced(s) ==
            IF ~s.ok THEN s ELSE processed(process_block(s.reg, s.st, b))
      IN advanced(process_slots(reg, st, b.slot))

(***************************************************************************)
(* Tables and fields of LeanDB.  A table is a function on its keys; the    *)
(* store is the record S of all tables and fields.                         *)
(***************************************************************************)
EmptyTable == [k \in {} |-> 0]

Put(t, k, v) == [x \in (DOMAIN t) \cup {k} |-> IF x = k THEN v ELSE t[x]]

Remove(t, k) == [x \in (DOMAIN t) \ {k} |-> t[x]]

\* LeanBlockTable::insert: slot_index, then state_root_index, then the block
block_insert(S, key, value) ==
    [S EXCEPT
        !.slot_index = Put(S.slot_index, value.message.block.slot, key),
        !.state_root_index = Put(S.state_root_index, value.message.block.state_root, key),
        !.block = Put(S.block, key, value)]

\* LatestKnownAttestationTable::batch_insert: every pair is written
RECURSIVE batch_insert(_, _)
batch_insert(table, values) ==
    IF values = <<>> THEN table
    ELSE batch_insert(Put(table, Head(values)[1], Head(values)[2]), Tail(values))

\* the pairs of a table in ascending key order
RECURSIVE Pairs(_)
Pairs(t) ==
    IF DOMAIN t = {} THEN <<>>
    ELSE LET k == CHOOSE x \in DOMAIN t : \A y \in DOMAIN t : x <= y
         IN <<(<<k, t[k]>>)>> \o Pairs(Remove(t, k))

RECURSIVE Values(_)
Values(pairs) ==
    IF pairs = <<>> THEN <<>> ELSE <<Head(pairs)[2]>> \o Values(Tail(pairs))

RECURSIVE Keys(_)
Keys(pairs) ==
    IF pairs = <<>> THEN <<>> ELSE <<Head(pairs)[1]>> \o Keys(Tail(pairs))

\* LeanSlotIndexTable::get_oldest_root
get_oldest_root(S) ==
    IF DOMAIN S.slot_index = {} THEN ZERO
    ELSE S.slot_index[CHOOSE x \in DOMAIN S.slot_index :
                         \A y \in DOMAIN S.slot_index : x <= y]

(***************************************************************************)
(* LMD-GHOST                                                               *)
(***************************************************************************)
Weight(weights, r) == IF r \in DOMAIN weights THEN weights[r] ELSE 0

\* the inner while loop of compute_lmd_ghost_head for one attestation
RECURSIVE CountVote(_, _, _, _)
CountVote(S, weights, current_root, start_slot) ==
    IF current_root \notin DOMAIN S.block THEN weights
    ELSE LET b == S.block[current_root].message.block IN
         IF b.slot <= start_slot THEN weights
         ELSE CountVote(S, Put(weights, current_root, Weight(weights, current_root) + 1),
                        b.parent_root, start_slot)

RECURSIVE CountVotes(_, _, _, _)
CountVotes(S, weights, attestations, start_slot) ==
    IF attestations = <<>> THEN weights
    ELSE CountVotes(S,
                    CountVote(S, weights, Head(attestations).message.data.head.root,
                              start_slot),
                    Tail(attestations), start_slot)

\* LeanBlockTable::get_children_map over the table in iteration order `order`
RECURSIVE get_children_map(_, _, _, _)
get_children_map(S, order, min_score, attestation_weights) ==
    IF order = <<>> THEN EmptyTable
    ELSE
      LET rest == get_children_map(S, SubSeq(order, 1, Len(order) - 1),
                                   min_score, attestation_weights)
          hash == order[Len(order)]
          b == S.block[hash].message.block
      IN IF b.parent_root # ZERO /\ Weight(attestation_weights, hash) >= min_score
         THEN Put(rest, b.parent_root,
                  IF b.parent_root \in DOMAIN rest
                  THEN Append(rest[b.parent_root], hash) ELSE <<hash>>)
         ELSE rest

\* the key without the root
ChildKey_NoRoot(S, weights, child_hash) ==
    <<Weight(weights, child_hash),
      IF child_hash \in DOMAIN S.block THEN S.block[child_hash].message.block.slot ELSE 0,
      ZERO>>

\* the key of max_by_key and its lexicographic order
ChildKey(S, weights, child_hash) ==
    <<Weight(weights, child_hash),
      IF child_hash \in DOMAIN S.block THEN S.block[child_hash].message.block.slot ELSE 0,
      child_hash>>

\* the order of the keys that looks at the slot before the weight
KeyGeq_SlotFirst(a, b) ==
    \/ a[2] > b[2]
    \/ a[2] = b[2] /\ a[1] > b[1]
    \/ a[1] = b[1] /\ a[2] = b[2] /\ a[3] >= b[3]

KeyGeq(a, b) ==
    \/ a[1] > b[1]
    \/ a[1] = b[1] /\ a[2] > b[2]
    \/ a[1] = b[1] /\ a[2] = b[2] /\ a[3] >= b[3]

\* Iterator::max_by_key: the last of the greatest elements
RECURSIVE max_by_key(_, _, _, _)
max_by_key(S, weights, children, best) ==
    IF children = <<>> THEN best
    ELSE max_by_key(S, weights, Tail(children),
                    IF KeyGeq(ChildKey(S, weights, Head(children)),
                              ChildKey(S, weights, best))
                    THEN Head(children) ELSE best)

RECURSIVE HeadWalk(_, _, _, _)
HeadWalk(S, weights, children_map, h) ==
    IF h \in DOMAIN children_map
    THEN HeadWalk(S, weights, children_map,
                  max_by_key(S, weights, Tail(children_map[h]), Head(children_map[h])))
    ELSE h

\* attestations: the pool in iteration order; order: the block table in
\* iteration order.  "panic" is the expect() on a start root without block.
compute_lmd_ghost_head(S, attestations, order, provided_root, min_score) ==
    LET root == IF provided_root = ZERO THEN get_oldest_root(S) ELSE provided_root IN
    IF provided_root = ZERO /\ DOMAIN S.slot_index = {} THEN [ok |-> FALSE, head |-> ZERO]
    ELSE IF root \notin DOMAIN S.block THEN [ok |-> FALSE, head |-> ZERO]
    ELSE
      LET start_slot == S.block[root].message.block.slot
          walk(weights) ==
            HeadWalk(S, weights, get_children_map(S, order, min_score, weights), root)
      IN [ok |-> TRUE,
          head |-> walk(CountVotes(S, EmptyTable, attestations, start_slot))]

BlockOrder(S) == Keys(Pairs(S.block))

update_head(S) ==
    LET set(r) ==
          IF ~r.ok THEN [ok |-> FALSE, S |-> S]
          ELSE IF r.head \notin DOMAIN S.block THEN [ok |-> FALSE, S |-> S]
          ELSE [ok |-> TRUE, S |-> [S EXCEPT !.head = r.head]]
    IN set(compute_lmd_ghost_head(S, Values(Pairs(S.latest_known)), BlockOrder(S),
                                  S.latest_justified.root, 0))

DivCeil(a, b) == (a + b - 1) \div b

\* update_safe_target with no least score
update_safe_target_AnyScore(S) ==
    IF S.head \notin DOMAIN S.lean_state THEN [ok |-> FALSE, S |-> S]
    ELSE
      LET set(r) == IF ~r.ok THEN [ok |-> FALSE, S |-> S]
                    ELSE [ok |-> TRUE, S |-> [S EXCEPT !.safe_target = r.head]]
      IN set(compute_lmd_ghost_head(S, Values(Pairs(S.latest_new)), BlockOrder(S),
                                    S.latest_justified.root, 0))

update_safe_target(S) ==
    IF S.head \notin DOMAIN S.lean_state THEN [ok |-> FALSE, S |-> S]
    ELSE
      LET min_target_score == DivCeil(NumValidators * 2, 3)
          set(r) == IF ~r.ok THEN [ok |-> FALSE, S |-> S]
                    ELSE [ok |-> TRUE, S |-> [S EXCEPT !.safe_target = r.head]]
      IN set(compute_lmd_ghost_head(S, Values(Pairs(S.latest_new)), BlockOrder(S),
                                    S.latest_justified.root, min_target_score))

accept_new_attestations(S) ==
    update_head([S EXCEPT
        !.latest_known = batch_insert(S.latest_known, Pairs(S.latest_new)),
        !.latest_new = EmptyTable])

\* the interval one tick too late
current_interval_Late(t) == ((t - 1) % SECONDS_PER_SLOT) % INTERVALS_PER_SLOT

\* the interval of the slot that time t falls in
current_interval(t) == (t % SECONDS_PER_SLOT) % INTERVALS_PER_SLOT

\* called: the operation the tick ran, "none" when it ran nothing
tick_interval(S, has_proposal) ==
    LET t == S.time + 1
        S1 == [S EXCEPT !.time = t]
        run(called, r) == [ok |-> r.ok, S |-> r.S, called |-> called]
    IN IF current_interval(t) = 0
       THEN IF has_proposal
            THEN run("accept_new_attestations", accept_new_attestations(S1))
            ELSE [ok |-> TRUE, S |-> S1, called |-> "none"]
       ELSE IF current_interval(t) = 2
            THEN run("update_safe_target", update_safe_target(S1))
       ELSE IF current_interval(t) = 3
            THEN run("accept_new_attestations", accept_new_attestations(S1))
       ELSE [ok |-> TRUE, S |-> S1, called |-> "none"]

(***************************************************************************)
(* Attestations and blocks entering the store                              *)
(***************************************************************************)
\* has_proposal is passed to every tick of the loop
RECURSIVE on_tick_EveryTick(_, _, _)
on_tick_EveryTick(S, elapsed, has_proposal) ==
    LET seconds_per_interval == SECONDS_PER_SLOT \div INTERVALS_PER_SLOT
        tick_interval_time == elapsed \div seconds_per_interval
        ticked(r) ==
          IF ~r.ok THEN [ok |-> FALSE, S |-> r.S]
          ELSE on_tick_EveryTick(r.S, elapsed, has_proposal)
    IN IF S.time < tick_interval_time
       THEN ticked(tick_interval(S, has_proposal))
       ELSE [ok |-> TRUE, S |-> S]

\* on_tick for the wall clock genesis_time + elapsed: tick_interval until the
\* store time is the interval of the wall clock, has_proposal passed to the
\* last tick only; an error of a tick ends the loop with the store it left
RECURSIVE on_tick(_, _, _)
on_tick(S, elapsed, has_proposal) ==
    LET seconds_per_interval == SECONDS_PER_SLOT \div INTERVALS_PER_SLOT
        tick_interval_time == elapsed \div seconds_per_interval
        ticked(r) ==
          IF ~r.ok THEN [ok |-> FALSE, S |-> r.S]
          ELSE on_tick(r.S, elapsed, has_proposal)
    IN IF S.time < tick_interval_time
       THEN ticked(tick_interval(S, has_proposal /\ S.time + 1 = tick_interval_time))
       ELSE [ok |-> TRUE, S |-> S]

\* head is the stored head after the ticks and the accepted attestations
get_proposal_head(S, slot) ==
    LET accepted(a) == [ok |-> a.ok, S |-> a.S, head |-> a.S.head]
        ticked(t) ==
          IF ~t.ok THEN [ok |-> FALSE, S |-> t.S, head |-> t.S.head]
          ELSE accepted(accept_new_attestations(t.S))
    IN ticked(on_tick(S, slot * SECONDS_PER_SLOT, TRUE))

\* the entries of the latest-known pool in the order the table is iterated
RECURSIVE InOrder(_, _)
InOrder(pool, order) ==
    IF order = <<>> THEN <<>>
    ELSE (IF Head(order) \in DOMAIN pool THEN <<pool[Head(order)]>> ELSE <<>>)
         \o InOrder(pool, Tail(order))

Contains(list, x) == \E i \in 1 .. Len(list) : list[i] = x

\* a round that passes over the attestations of validator 0
RECURSIVE NewAttestations_NotZero(_, _, _, _)
NewAttestations_NotZero(S, entries, attestations, justified) ==
    IF entries = <<>> THEN <<>>
    ELSE (IF /\ Head(entries).message.data.head.root \in DOMAIN S.block
             /\ Head(entries).message.data.source = justified
             /\ ~Contains(attestations, Head(entries).message)
             /\ Head(entries).message.validator_id # 0
          THEN <<Head(entries)>> ELSE <<>>)
         \o NewAttestations_NotZero(S, Tail(entries), attestations, justified)

\* the attestations of the pool, in order, that the loop of
\* produce_block_with_signatures adds in one round
RECURSIVE NewAttestations(_, _, _, _)
NewAttestations(S, entries, attestations, justified) ==
    IF entries = <<>> THEN <<>>
    ELSE (IF /\ Head(entries).message.data.head.root \in DOMAIN S.block
             /\ Head(entries).message.data.source = justified
             /\ ~Contains(attestations, Head(entries).message)
          THEN <<Head(entries)>> ELSE <<>>)
         \o NewAttestations(S, Tail(entries), attestations, justified)

RECURSIVE Messages(_)
Messages(entries) ==
    IF entries = <<>> THEN <<>>
    ELSE <<Head(entries).message>> \o Messages(Tail(entries))

RECURSIVE Signatures(_)
Signatures(entries) ==
    IF entries = <<>> THEN <<>>
    ELSE <<Head(entries).signature>> \o Signatures(Tail(entries))

\* the loop of produce_block_with_signatures: the candidate block with the
\* attestations gathered so far is processed on a copy of the head state and
\* the pool is searched for attestations from the justified checkpoint of
\* that copy, until a round adds none
RECURSIVE PackAttestations(_, _, _, _, _, _, _, _)
PackAttestations(reg, S, head_state, head_root, slot, validator_index, order, packed) ==
    LET candidate_block ==
          [slot |-> slot, proposer_index |-> validator_index,
           parent_root |-> head_root, state_root |-> ZERO,
           body |-> BlockBody(Messages(packed))]
        added(p, new) ==
          IF new = <<>> THEN [ok |-> TRUE, err |-> "none", packed |-> packed, reg |-> p.reg]
          ELSE PackAttestations(p.reg, S, head_state, head_root, slot,
                                validator_index, order, packed \o new)
        processed(p) ==
          IF ~p.ok THEN [ok |-> FALSE, err |-> "process_block", packed |-> packed,
                         reg |-> p.reg]
          ELSE added(p, NewAttestations(S, InOrder(S.latest_known, order),
                                        Messages(packed), p.st.latest_justified))
        advanced(s) ==
          IF ~s.ok THEN [ok |-> FALSE, err |-> "process_slots", packed |-> packed,
                         reg |-> s.reg]
          ELSE processed(process_block(s.reg, s.st, candidate_block))
    IN advanced(process_slots(reg, head_state, slot))

\* produce_block_with_signatures with the state root taken after
\* process_slots, before the final block is processed
produce_block_with_signatures_RootBeforeBlock(reg, S, slot, validator_index, order) ==
    LET refused(P, r, err) ==
          [ok |-> FALSE, err |-> err, S |-> P, block |-> "none",
           signatures |-> <<>>, reg |-> r]
        built(P, p, final_block, packed) ==
          IF ~p.ok THEN refused(P, p.reg, "process_block")
          ELSE [ok |-> TRUE, err |-> "none", S |-> P,
                block |-> [final_block EXCEPT
                             !.state_root = tree_hash_root(p.reg, p.st)],
                signatures |-> Signatures(packed), reg |-> Hashed(p.reg, p.st)]
        advanced(P, s, final_block, packed) ==
          IF ~s.ok THEN refused(P, s.reg, "process_slots")
          ELSE built(P, [ok |-> process_block(s.reg, s.st, final_block).ok,
                         st |-> s.st, reg |-> s.reg], final_block, packed)
        gathered(h, g) ==
          IF ~g.ok THEN refused(h.S, g.reg, g.err)
          ELSE advanced(h.S, process_slots(g.reg, h.S.lean_state[h.head], slot),
                        [slot |-> slot, proposer_index |-> validator_index,
                         parent_root |-> h.head, state_root |-> ZERO,
                         body |-> BlockBody(Messages(g.packed))],
                        g.packed)
        headed(h) ==
          IF ~h.ok THEN refused(h.S, reg, "proposal head")
          ELSE IF h.head \notin DOMAIN h.S.lean_state THEN refused(h.S, reg, "state")
          ELSE IF ~is_proposer(validator_index, slot, NumValidators)
               THEN refused(h.S, reg, "proposer")
          ELSE gathered(h, PackAttestations(reg, h.S, h.S.lean_state[h.head], h.head,
                                            slot, validator_index, order, <<>>))
    IN headed(get_proposal_head(S, slot))

\* block is "none" on an error; S is the store that get_proposal_head left,
\* order the order in which the latest-known pool is iterated
produce_block_with_signatures(reg, S, slot, validator_index, order) ==
    LET refused(P, r, err) ==
          [ok |-> FALSE, err |-> err, S |-> P, block |-> "none",
           signatures |-> <<>>, reg |-> r]
        built(P, p, final_block, packed) ==
          IF ~p.ok THEN refused(P, p.reg, "process_block")
          ELSE [ok |-> TRUE, err |-> "none", S |-> P,
                block |-> [final_block EXCEPT
                             !.state_root = tree_hash_root(p.reg, p.st)],
                signatures |-> Signatures(packed), reg |-> Hashed(p.reg, p.st)]
        advanced(P, s, final_block, packed) ==
          IF ~s.ok THEN refused(P, s.reg, "process_slots")
          ELSE built(P, process_block(s.reg, s.st, final_block), final_block, packed)
        gathered(h, g) ==
          IF ~g.ok THEN refused(h.S, g.reg, g.err)
          ELSE advanced(h.S, process_slots(g.reg, h.S.lean_state[h.head], slot),
                        [slot |-> slot, proposer_index |-> validator_index,
                         parent_root |-> h.head, state_root |-> ZERO,
                         body |-> BlockBody(Messages(g.packed))],
                        g.packed)
        headed(h) ==
          IF ~h.ok THEN refused(h.S, reg, "proposal head")
          ELSE IF h.head \notin DOMAIN h.S.lean_state THEN refused(h.S, reg, "state")
          ELSE IF ~is_proposer(validator_index, slot, NumValidators)
               THEN refused(h.S, reg, "proposer")
          ELSE gathered(h, PackAttestations(reg, h.S, h.S.lean_state[h.head], h.head,
                                            slot, validator_index, order, <<>>))
    IN headed(get_proposal_head(S, slot))

(***************************************************************************)
(* is_justifiable_after (fork_choice/lean/src/utils.rs)                    *)
(*                                                                         *)
(* Slots are u64 in the code.  The arithmetic is kept at a width of        *)
(* WordBits bits, so that 4 * delta + 1 leaves the word as it does in the  *)
(* code for delta >= 2^62.  A multiplication that leaves the word panics   *)
(* in a build with overflow checks and wraps in a build without them.      *)
(***************************************************************************)
WordBits == 8

Word == 0 .. (2 ^ WordBits - 1)

\* u64::isqrt: the largest k with k * k <= n
isqrt(n) == CHOOSE k \in 0 .. n : k * k <= n /\ (k + 1) * (k + 1) > n

\* "fail" is the Err of the ensure!, "panic" the overflow panic, "yes" and
\* "no" are Ok(true) and Ok(false)
is_justifiable_after(candidate_slot, finalized_slot, overflow_checks) ==
    LET odd_square(m) == isqrt(m) * isqrt(m) = m /\ isqrt(m) % 2 = 1
        third(delta) ==
          IF 4 * delta >= 2 ^ WordBits /\ overflow_checks THEN "panic"
          ELSE IF odd_square(((4 * delta) % (2 ^ WordBits)) + 1) THEN "yes"
          ELSE "no"
        decided(delta) ==
          IF delta <= 5 THEN "yes"
          ELSE IF isqrt(delta) * isqrt(delta) = delta THEN "yes"
          ELSE third(delta)
    IN IF ~(candidate_slot >= finalized_slot) THEN "fail"
       ELSE decided(candidate_slot - finalized_slot)

JUSTIFICATION_LOOKBACK_SLOTS == 3

\* the first loop of get_attestation_target: up to n parent hops from root
\* while the block is after the safe target; "err" when a block is missing
RECURSIVE LookBack(_, _, _)
LookBack(S, root, n) ==
    IF n = 0 THEN [ok |-> TRUE, root |-> root]
    ELSE IF root \notin DOMAIN S.block \/ S.safe_target \notin DOMAIN S.block
         THEN [ok |-> FALSE, root |-> root]
    ELSE IF S.block[root].message.block.slot
              > S.block[S.safe_target].message.block.slot
         THEN LookBack(S, S.block[root].message.block.parent_root, n - 1)
    ELSE [ok |-> TRUE, root |-> root]

\* a second loop that takes no hop
ToJustifiable_Stays(S, root, overflow_checks) ==
    IF root \notin DOMAIN S.block THEN [ok |-> FALSE, root |-> root]
    ELSE [ok |-> TRUE, root |-> root]

\* the second loop: parent hops until the slot is justifiable after the
\* finalized slot; the slots of the blocks are far below the overflow of
\* is_justifiable_after, whose outcome is then the same in every build
RECURSIVE ToJustifiable(_, _, _)
ToJustifiable(S, root, overflow_checks) ==
    LET judged(j) ==
          IF j = "yes" THEN [ok |-> TRUE, root |-> root]
          ELSE IF j = "no"
               THEN ToJustifiable(S, S.block[root].message.block.parent_root,
                                  overflow_checks)
          ELSE [ok |-> FALSE, root |-> root]
    IN IF root \notin DOMAIN S.block THEN [ok |-> FALSE, root |-> root]
       ELSE judged(is_justifiable_after(S.block[root].message.block.slot,
                                        S.latest_finalized.slot, overflow_checks))

get_attestation_target(S) ==
    LET found(t) ==
          IF ~t.ok THEN [ok |-> FALSE, target |-> Checkpoint(ZERO, 0)]
          ELSE [ok |-> TRUE,
                target |-> Checkpoint(t.root, S.block[t.root].message.block.slot)]
        walked(l) ==
          IF ~l.ok THEN [ok |-> FALSE, target |-> Checkpoint(ZERO, 0)]
          ELSE found(ToJustifiable(S, l.root, TRUE))
    IN walked(LookBack(S, S.head, JUSTIFICATION_LOOKBACK_SLOTS))

produce_attestation_data(S, slot) ==
    LET targeted(t) ==
          IF ~t.ok THEN [ok |-> FALSE, data |-> "none"]
          ELSE [ok |-> TRUE,
                data |-> [slot |-> slot,
                          head |-> Checkpoint(S.head,
                                              S.block[S.head].message.block.slot),
                          target |-> t.target,
                          source |-> S.latest_justified]]
    IN IF S.head \notin DOMAIN S.block THEN [ok |-> FALSE, data |-> "none"]
       ELSE targeted(get_attestation_target(S))

\* validate_attestation without the two comparisons of checkpoint slot and
\* block slot
validate_attestation_NoSlots(S, signed_attestation) ==
    LET data == signed_attestation.message.data
        current_slot == S.time \div SECONDS_PER_SLOT
    IN
    IF data.source.root \notin DOMAIN S.block THEN "unknown source"
    ELSE IF data.target.root \notin DOMAIN S.block THEN "unknown target"
    ELSE IF data.head.root \notin DOMAIN S.block THEN "unknown head"
    ELSE IF ~(data.source.slot <= data.target.slot) THEN "source exceeds target"
    ELSE IF ~(data.slot <= current_slot + 1) THEN "too far in future"
    ELSE "none"

\* validate_attestation without the bound on the slot of the attestation
validate_attestation_NoFuture(S, signed_attestation) ==
    LET data == signed_attestation.message.data IN
    IF data.source.root \notin DOMAIN S.block THEN "unknown source"
    ELSE IF data.target.root \notin DOMAIN S.block THEN "unknown target"
    ELSE IF data.head.root \notin DOMAIN S.block THEN "unknown head"
    ELSE IF ~(data.source.slot <= data.target.slot) THEN "source exceeds target"
    ELSE IF S.block[data.source.root].message.block.slot # data.source.slot
         THEN "source slot mismatch"
    ELSE IF S.block[data.target.root].message.block.slot # data.target.slot
         THEN "target slot mismatch"
    ELSE "none"

\* the first failed ensure! of validate_attestation, or "none"
validate_attestation(S, signed_attestation) ==
    LET data == signed_attestation.message.data
        current_slot == S.time \div SECONDS_PER_SLOT
    IN
    IF data.source.root \notin DOMAIN S.block THEN "unknown source"
    ELSE IF data.target.root \notin DOMAIN S.block THEN "unknown target"
    ELSE IF data.head.root \notin DOMAIN S.block THEN "unknown head"
    ELSE IF ~(data.source.slot <= data.target.slot) THEN "source exceeds target"
    ELSE IF S.block[data.source.root].message.block.slot # data.source.slot
         THEN "source slot mismatch"
    ELSE IF S.block[data.target.root].message.block.slot # data.target.slot
         THEN "target slot mismatch"
    ELSE IF ~(data.slot <= current_slot + 1) THEN "too far in future"
    ELSE "none"

\* the latest-new entry is removed only when it is strictly older
on_attestation_RemoveOlder(S, signed_attestation, is_from_block) ==
    LET validator_id == signed_attestation.message.validator_id
        attestation_slot == signed_attestation.message.data.slot
        refused(err) == [ok |-> FALSE, err |-> err, S |-> S]
    IN
    IF validate_attestation(S, signed_attestation) # "none"
    THEN refused(validate_attestation(S, signed_attestation))
    ELSE IF is_from_block
    THEN
      LET newer_known ==
              IF validator_id \in DOMAIN S.latest_known
              THEN S.latest_known[validator_id].message.data.slot < attestation_slot
              ELSE TRUE
          remove ==
              IF validator_id \in DOMAIN S.latest_new
              THEN S.latest_new[validator_id].message.data.slot < attestation_slot
              ELSE FALSE
      IN [ok |-> TRUE, err |-> "none",
          S |-> [S EXCEPT
                   !.latest_known = IF newer_known
                                    THEN Put(S.latest_known, validator_id, signed_attestation)
                                    ELSE S.latest_known,
                   !.latest_new = IF remove THEN Remove(S.latest_new, validator_id)
                                  ELSE S.latest_new]]
    ELSE
      LET time_slots == S.time \div SECONDS_PER_SLOT
          newer_new ==
              IF validator_id \in DOMAIN S.latest_new
              THEN S.latest_new[validator_id].message.data.slot < attestation_slot
              ELSE TRUE
      IN IF ~(attestation_slot <= time_slots)
         THEN [ok |-> FALSE, err |-> "future slot", S |-> S]
         ELSE [ok |-> TRUE, err |-> "none",
               S |-> [S EXCEPT
                        !.latest_new = IF newer_new
                                       THEN Put(S.latest_new, validator_id, signed_attestation)
                                       ELSE S.latest_new]]

on_attestation(S, signed_attestation, is_from_block) ==
    LET validator_id == signed_attestation.message.validator_id
        attestation_slot == signed_attestation.message.data.slot
        refused(err) == [ok |-> FALSE, err |-> err, S |-> S]
    IN
    IF validate_attestation(S, signed_attestation) # "none"
    THEN refused(validate_attestation(S, signed_attestation))
    ELSE IF is_from_block
    THEN
      LET newer_known ==
              IF validator_id \in DOMAIN S.latest_known
              THEN S.latest_known[validator_id].message.data.slot < attestation_slot
              ELSE TRUE
          remove ==
              IF validator_id \in DOMAIN S.latest_new
              THEN S.latest_new[validator_id].message.data.slot <= attestation_slot
              ELSE FALSE
      IN [ok |-> TRUE, err |-> "none",
          S |-> [S EXCEPT
                   !.latest_known = IF newer_known
                                    THEN Put(S.latest_known, validator_id, signed_attestation)
                                    ELSE S.latest_known,
                   !.latest_new = IF remove THEN Remove(S.latest_new, validator_id)
                                  ELSE S.latest_new]]
    ELSE
      LET time_slots == S.time \div SECONDS_PER_SLOT
          newer_new ==
              IF validator_id \in DOMAIN S.latest_new
              THEN S.latest_new[validator_id].message.data.slot < attestation_slot
              ELSE TRUE
      IN IF ~(attestation_slot <= time_slots)
         THEN [ok |-> FALSE, err |-> "future slot", S |-> S]
         ELSE [ok |-> TRUE, err |-> "none",
               S |-> [S EXCEPT
                        !.latest_new = IF newer_new
                                       THEN Put(S.latest_new, validator_id, signed_attestation)
                                       ELSE S.latest_new]]

\* Signature::verify: a signature is the token "good" or "bad"
SignatureVerifies(signature) == signature = "good"

RECURSIVE VerifyEach(_, _, _)
VerifyEach(attestations, signatures, verify) ==
    IF attestations = <<>> \/ signatures = <<>> THEN "none"
    ELSE IF ~(Head(attestations).validator_id < NumValidators)
         THEN "validator out of range"
    ELSE IF verify /\ ~SignatureVerifies(Head(signatures)) THEN "failed to verify"
    ELSE VerifyEach(Tail(attestations), Tail(signatures), verify)

\* verify_signatures without the comparison of the two lengths
verify_signatures_NoCount(signed_block, verify) ==
    VerifyEach(Append(signed_block.message.block.body.attestations,
                      signed_block.message.proposer_attestation),
               signed_block.signature, verify)

\* SignedBlockWithAttestation::verify_signatures: the error, or "none"
verify_signatures(signed_block, verify) ==
    LET all_attestations ==
            Append(signed_block.message.block.body.attestations,
                   signed_block.message.proposer_attestation)
    IN IF Len(signed_block.signature) # Len(all_attestations)
       THEN "signature count"
       ELSE VerifyEach(all_attestations, signed_block.signature, verify)

\* the loop of on_block over the body attestations zipped with the signatures
RECURSIVE BodyAttestations(_, _, _)
BodyAttestations(S, attestations, signatures) ==
    IF attestations = <<>> \/ signatures = <<>> THEN [ok |-> TRUE, err |-> "none", S |-> S]
    ELSE
      LET filed(r) ==
            IF ~r.ok THEN r
            ELSE BodyAttestations(r.S, Tail(attestations), Tail(signatures))
      IN filed(on_attestation(S, [message |-> Head(attestations),
                                  signature |-> Head(signatures)], TRUE))

\* the post-state's checkpoint whatever its slot
newer_checkpoint_Always(derived, stored) == derived

\* on_block keeps of each checkpoint the one with the greater slot
newer_checkpoint(derived, stored) ==
    IF derived.slot > stored.slot THEN derived ELSE stored

\* Store::on_block for a block that is not in the block table.  status is
\* "ok" or the error; S is the store when the call returns, reg the
\* preimages hashed.
on_block_new(reg, S, signed_block, verify) ==
    LET b == signed_block.message.block
        signatures == signed_block.signature
        root == block_root(reg, b)
        refused(err) == [status |-> err, S |-> S, reg |-> reg]
        \* the proposer attestation, filed last like a gossip attestation
        proposed(t, p) ==
          [status |-> IF p.ok THEN "ok" ELSE p.err, S |-> p.S, reg |-> t.reg]
        \* after update_head
        headed(t, h) ==
          IF ~h.ok THEN [status |-> "update head", S |-> h.S, reg |-> t.reg]
          ELSE IF ~InRange(signatures, Len(b.body.attestations))
               THEN [status |-> "no proposer signature", S |-> h.S, reg |-> t.reg]
          ELSE proposed(t, on_attestation(h.S,
                            [message |-> signed_block.message.proposer_attestation,
                             signature |-> signatures[Len(b.body.attestations) + 1]],
                            FALSE))
        \* after the body attestations
        attested(t, a) ==
          IF ~a.ok THEN [status |-> a.err, S |-> a.S, reg |-> t.reg]
          ELSE headed(t, update_head(a.S))
        \* after the state transition: the inserts and the checkpoints
        transitioned(t) ==
          IF ~t.ok THEN refused(t.err)
          ELSE attested(t, BodyAttestations(
                 [block_insert(S, root, signed_block) EXCEPT
                    !.lean_state = Put(S.lean_state, root, t.st),
                    !.latest_justified =
                        newer_checkpoint(t.st.latest_justified, S.latest_justified),
                    !.latest_finalized =
                        newer_checkpoint(t.st.latest_finalized, S.latest_finalized)],
                 b.body.attestations, signatures))
    IN
    IF b.parent_root \notin DOMAIN S.lean_state THEN refused("no parent state")
    ELSE IF verify_signatures(signed_block, verify) # "none"
         THEN refused(verify_signatures(signed_block, verify))
    ELSE transitioned(state_transition(block_hashed(reg, b),
                                       S.lean_state[b.parent_root], b, TRUE))

\* on_block answering a block it has stored with an error
on_block_KnownIsError(reg, S, signed_block, verify) ==
    IF block_root(reg, signed_block.message.block) \in DOMAIN S.block
    THEN [status |-> "already known", S |-> S, reg |-> reg]
    ELSE on_block_new(reg, S, signed_block, verify)

\* Store::on_block.  status "known" is the Ok returned for a block that is
\* already in the block table.
on_block(reg, S, signed_block, verify) ==
    IF block_root(reg, signed_block.message.block) \in DOMAIN S.block
    THEN [status |-> "known", S |-> S, reg |-> reg]
    ELSE on_block_new(reg, S, signed_block, verify)

(***************************************************************************)
(* Initial state: genesis, and the store built on it by                    *)
(* get_forkchoice_store.                                                   *)
(***************************************************************************)
GenesisHashes == <<EmptyBody, generate_genesis>>

genesis_block ==
    [slot |-> 0, proposer_index |-> 0, parent_root |-> ZERO,
     state_root |-> tree_hash_root(GenesisHashes, generate_genesis),
     body |-> EmptyBody]

AnchorRoot == block_root(GenesisHashes, genesis_block)

AttestationData(slot, head_cp, target_cp, source_cp) ==
    [slot |-> slot, head |-> head_cp, target |-> target_cp, source |-> source_cp]

Attestation(validator_id, data) == [validator_id |-> validator_id, data |-> data]

AnchorBlock ==
    [message |->
        [block |-> genesis_block,
         proposer_attestation |->
            Attestation(0, AttestationData(0, Checkpoint(AnchorRoot, 0),
                                           Checkpoint(AnchorRoot, 0),
                                           Checkpoint(AnchorRoot, 0)))],
     signature |-> <<>>]

get_forkchoice_store ==
    LET anchor_checkpoint == Checkpoint(AnchorRoot, genesis_block.slot)
        empty == [block |-> EmptyTable, lean_state |-> EmptyTable,
                  slot_index |-> EmptyTable, state_root_index |-> EmptyTable,
                  latest_known |-> EmptyTable, latest_new |-> EmptyTable,
                  latest_justified |-> anchor_checkpoint,
                  latest_finalized |-> anchor_checkpoint,
                  head |-> AnchorRoot, safe_target |-> AnchorRoot,
                  time |-> genesis_block.slot * SECONDS_PER_SLOT]
    IN [block_insert(empty, AnchorRoot, AnchorBlock) EXCEPT
           !.lean_state = Put(EmptyTable, AnchorRoot, generate_genesis)]

\* the store as one record, and the variables set from such a record
Store ==
    [block |-> block, lean_state |-> lean_state, slot_index |-> slot_index,
     state_root_index |-> state_root_index, latest_known |-> latest_known,
     latest_new |-> latest_new, latest_justified |-> latest_justified,
     latest_finalized |-> latest_finalized, head |-> head,
     safe_target |-> safe_target, time |-> time]

SetStore(S) ==
    /\ block' = S.block
    /\ lean_state' = S.lean_state
    /\ slot_index' = S.slot_index
    /\ state_root_index' = S.state_root_index
    /\ latest_known' = S.latest_known
    /\ latest_new' = S.latest_new
    /\ latest_justified' = S.latest_justified
    /\ latest_finalized' = S.latest_finalized
    /\ head' = S.head
    /\ safe_target' = S.safe_target
    /\ time' = S.time

\* a reply channel with nothing in it, and one whose sender was dropped
NoReply == [kind |-> "none"]

Dropped == [kind |-> "dropped"]

\* the services before their first tick, the validator service with the
\* given keystores (validator indices in the order of the keystore list)
ChainInit ==
    [status |-> "running", tick_count |-> 0, tick_ready |-> FALSE,
     receiver |-> <<>>, outbound_gossip |-> <<>>, logged |-> 0]

ValidatorInit(keystores) ==
    [status |-> "running", tick_count |-> 0, tick_ready |-> FALSE,
     keystores |-> keystores, pc |-> "idle", reply |-> NoReply, held |-> NoReply]

\* no on_block call is between two of its commits
WriterIdle == [pc |-> "idle"]

\* the genesis state and the store made from it
InitStore ==
    /\ writer = WriterIdle
    /\ hashes = block_hashed(GenesisHashes, genesis_block)
    /\ state = generate_genesis
    /\ used = [vote_blocks |-> 0, steps |-> 0, network |-> 0]
    /\ block = get_forkchoice_store.block
    /\ lean_state = get_forkchoice_store.lean_state
    /\ slot_index = get_forkchoice_store.slot_index
    /\ state_root_index = get_forkchoice_store.state_root_index
    /\ latest_known = get_forkchoice_store.latest_known
    /\ latest_new = get_forkchoice_store.latest_new
    /\ latest_justified = get_forkchoice_store.latest_justified
    /\ latest_finalized = get_forkchoice_store.latest_finalized
    /\ head = get_forkchoice_store.head
    /\ safe_target = get_forkchoice_store.safe_target
    /\ time = get_forkchoice_store.time

Init ==
    /\ InitStore
    /\ result = [op |-> "init", changed |-> TRUE]
    /\ chain = ChainInit
    /\ validator = ValidatorInit(<<>>)

(***************************************************************************)
(* Inputs                                                                  *)
(***************************************************************************)
UnknownRoot == 99       \* a root that is the hash of nothing in the model

RECURSIVE SetToSeq(_)
SetToSeq(set) ==
    IF set = {} THEN <<>>
    ELSE LET m == CHOOSE x \in set : \A y \in set : x <= y
         IN <<m>> \o SetToSeq(set \ {m})

\* one attestation with the same data for each validator of V, ascending
Votes(V, data) ==
    LET ids == SetToSeq(V) IN [i \in 1 .. Len(ids) |-> Attestation(ids[i], data)]

\* the validators voting in one body: one validator (also the first index
\* past the registry), or the first k validators
VoterSets ==
    {{v} : v \in 0 .. NumValidators} \cup {0 .. k : k \in 1 .. (MaxBodyLen - 1)}

\* (source, target) pairs an attestation processed by st may name: source at
\* slot 0 or at latest_justified, target anywhere in the history; a source
\* after its target; foreign roots; slots beyond the history
StateVotes(st) ==
    LET n == Len(st.historical_block_hashes)
        cp(slot) == Checkpoint(st.historical_block_hashes[slot + 1], slot)
        sources == {cp(0)} \cup
                   (IF st.latest_justified.slot < n
                    THEN {cp(st.latest_justified.slot)} ELSE {})
    IN {<<src, cp(t)>> : src \in sources, t \in 0 .. (n - 1)}
       \cup {<<cp(n - 1), cp(0)>>,
             <<Checkpoint(UnknownRoot, 0), cp(n - 1)>>,
             <<cp(0), Checkpoint(UnknownRoot, n - 1)>>,
             <<cp(0), Checkpoint(UnknownRoot, n)>>,
             <<Checkpoint(UnknownRoot, n), cp(n - 1)>>}

(***************************************************************************)
(* LeanState driven directly: process_slots and process_block              *)
(***************************************************************************)
ProcessSlots(target_slot) ==
    LET done(r) ==
          /\ state' = r.st
          /\ hashes' = r.reg
          /\ result' = [op |-> "process_slots", ok |-> r.ok, target |-> target_slot]
    IN
    /\ done(process_slots(hashes, state, target_slot))
    /\ UNCHANGED <<used, storeVars, serviceVars>>

ProcessBlock(b) ==
    LET done(r) ==
          /\ state' = r.st
          /\ hashes' = r.reg
          /\ result' = [op |-> "process_block", ok |-> r.ok, slot |-> b.slot]
    IN
    /\ done(process_block(hashes, state, b))
    /\ used' = IF b.body.attestations # <<>>
               THEN [used EXCEPT !.vote_blocks = used.vote_blocks + 1] ELSE used
    /\ UNCHANGED <<storeVars, serviceVars>>

\* blocks offered to the state: right or wrong slot, proposer and parent,
\* and any body of votes over the checkpoints of the history the block extends
StateBlocks ==
    LET base(sl, p, pr) ==
            [slot |-> sl, proposer_index |-> p, parent_root |-> pr,
             state_root |-> ZERO, body |-> EmptyBody]
        voted(h) ==
            IF ~h.ok THEN {<<>>}
            ELSE {<<>>} \cup
                 (IF used.vote_blocks >= MaxVoteBlocks THEN {}
                  ELSE {Votes(V, AttestationData(v[2].slot, v[2], v[2], v[1])) :
                           V \in VoterSets, v \in StateVotes(h.st)})
        bodies(b) == voted(process_block_header(hashes, state, b))
    IN UNION {
         {[base(sl, p, pr) EXCEPT !.body = BlockBody(atts)] :
             atts \in bodies(base(sl, p, pr))} :
          sl \in {state.slot, state.slot + 2},
          p \in {state.slot % NumValidators, (state.slot + 1) % NumValidators},
          pr \in {tree_hash_root(hashes, state.latest_block_header), ZERO}}

NextState ==
    \/ \E target_slot \in 0 .. MaxSlot : ProcessSlots(target_slot)
    \/ \E b \in StateBlocks : ProcessBlock(b)

SpecState == Init /\ [][NextState]_vars

(***************************************************************************)
(* Claims on the LeanState                                                 *)
(***************************************************************************)
\* C1: in every LeanState reached from genesis by process_slots and
\* process_block, latest_finalized.slot <= latest_justified.slot <= slot.
C1_CheckpointOrder ==
    /\ state.latest_finalized.slot <= state.latest_justified.slot
    /\ state.latest_justified.slot <= state.slot

\* a block has finalized a slot after genesis
C1_Witness ==
    /\ result.op = "process_block"
    /\ result.ok
    /\ state.latest_finalized.slot >= 1
    /\ state.latest_justified.slot > state.latest_finalized.slot

(***************************************************************************)
(* The fork-choice store: inputs                                           *)
(***************************************************************************)
CheckpointOf(S, root) == Checkpoint(root, S.block[root].message.block.slot)

Min(a, b) == IF a <= b THEN a ELSE b

\* a block on parent_root made the way a proposer makes it: the state root
\* is the root of the parent state taken through the state transition
BuildBlock(reg, S, parent_root, slot, attestations) ==
    LET b == [slot |-> slot, proposer_index |-> slot % NumValidators,
              parent_root |-> parent_root, state_root |-> ZERO,
              body |-> BlockBody(attestations)]
        processed(p) ==
          IF p.ok
          THEN [block |-> [b EXCEPT !.state_root = tree_hash_root(p.reg, p.st)],
                reg |-> Hashed(p.reg, p.st)]
          ELSE [block |-> b, reg |-> reg]
        advanced(s) ==
          IF s.ok THEN processed(process_block(s.reg, s.st, b))
          ELSE [block |-> b, reg |-> reg]
    IN advanced(process_slots(reg, S.lean_state[parent_root], slot))

\* the proposer's own attestation, as produce_attestation_data fills it
\* before the block is known: head and target the parent, source the stored
\* latest_justified, slot the block's slot once the store time has reached it
ProposerAttestation(S, b) ==
    Attestation(b.proposer_index,
        AttestationData(Min(b.slot, S.time \div SECONDS_PER_SLOT),
                        CheckpointOf(S, b.parent_root),
                        CheckpointOf(S, b.parent_root),
                        S.latest_justified))

Signed(b, proposer_attestation, signatures) ==
    [message |-> [block |-> b, proposer_attestation |-> proposer_attestation],
     signature |-> signatures]

\* bodies offered on parent_root in a block of the given slot: none, or votes
\* cast the slot before for the parent, with the parent state's
\* latest_justified as source
StoreBodies(S, parent_root, slot) ==
    LET st == S.lean_state[parent_root]
        parent == CheckpointOf(S, parent_root)
        source == IF st.latest_justified.root = ZERO
                  THEN parent ELSE st.latest_justified
        data == AttestationData(slot - 1, parent, parent, source)
    IN {<<>>} \cup
       (IF used.vote_blocks >= MaxVoteBlocks THEN {}
        ELSE {Votes(0 .. (MaxBodyLen - 1), data)})

BlockFaults ==
    {"slot", "proposer", "parent", "state_root", "signature_count", "signature"}

\* the signed block with one thing wrong
Faulty(S, sb, fault) ==
    LET b == sb.message.block IN
    IF fault = "slot"
    THEN [sb EXCEPT !.message.block.slot = S.block[b.parent_root].message.block.slot]
    ELSE IF fault = "proposer"
    THEN [sb EXCEPT !.message.block.proposer_index = (b.slot + 1) % NumValidators]
    ELSE IF fault = "parent"
    THEN [sb EXCEPT !.message.block.parent_root = UnknownRoot]
    ELSE IF fault = "state_root"
    THEN [sb EXCEPT !.message.block.state_root = ZERO]
    ELSE IF fault = "signature_count"
    THEN [sb EXCEPT !.signature = SubSeq(sb.signature, 1, Len(sb.signature) - 1)]
    ELSE IF fault = "signature"
    THEN [sb EXCEPT !.signature[1] = "bad"]
    ELSE sb

\* a signed block on parent_root with good signatures, and the preimages
\* hashed to make it
Offer(reg, S, parent_root, slot, atts) ==
    LET signed(built) ==
          [signed_block |-> Signed(built.block, ProposerAttestation(S, built.block),
                                   [i \in 1 .. (Len(atts) + 1) |-> "good"]),
           reg |-> built.reg, fault |-> "none"]
    IN signed(BuildBlock(reg, S, parent_root, slot, atts))

\* new blocks on any stored parent, at any later slot up to MaxSlot
FreshBlocks(reg, S) ==
    LET on(parent_root) ==
          UNION {{Offer(reg, S, parent_root, slot, atts) :
                     atts \in StoreBodies(S, parent_root, slot)} :
                 slot \in (S.block[parent_root].message.block.slot + 1) .. MaxSlot}
    IN IF Cardinality(DOMAIN S.block) > MaxBlocks \/ used.steps >= MaxSteps
       THEN {}
       ELSE UNION {on(parent_root) : parent_root \in DOMAIN S.block}

\* the block after the head, with one thing wrong
FaultyBlocks(reg, S) ==
    LET slot == S.block[S.head].message.block.slot + 1
        wrong(o) == {[o EXCEPT !.signed_block = Faulty(S, @, fault), !.fault = fault] :
                        fault \in BlockFaults}
    IN UNION {wrong(Offer(reg, S, S.head, slot, atts)) :
                 atts \in StoreBodies(S, S.head, slot)}

\* the blocks already stored, as stored or with a signature missing
StoredBlocks(reg, S) ==
    UNION {{[signed_block |-> Faulty(S, S.block[root], fault), reg |-> reg,
              fault |-> fault] :
               fault \in {"none", "signature_count"}} :
           root \in (DOMAIN S.block) \ {AnchorRoot}}

BlockInputs(reg, S) ==
    FreshBlocks(reg, S) \cup FaultyBlocks(reg, S) \cup StoredBlocks(reg, S)

AttestationFaults ==
    {"unknown source", "unknown target", "unknown head",
     "source exceeds target", "source slot", "target slot", "future"}

\* a vote by validator v, cast in the given slot, for a stored block, from
\* the anchor
Vote(S, v, root, slot) ==
    LET anchor == CheckpointOf(S, AnchorRoot)
        h == CheckpointOf(S, root)
    IN [message |-> Attestation(v, AttestationData(slot, h, h, anchor)),
        signature |-> "good"]

\* the vote with one thing wrong
FaultyVote(S, a, fault) ==
    IF fault = "unknown source" THEN [a EXCEPT !.message.data.source.root = UnknownRoot]
    ELSE IF fault = "unknown target" THEN [a EXCEPT !.message.data.target.root = UnknownRoot]
    ELSE IF fault = "unknown head" THEN [a EXCEPT !.message.data.head.root = UnknownRoot]
    ELSE IF fault = "source exceeds target"
         THEN [a EXCEPT !.message.data.source.slot = a.message.data.target.slot + 1]
    ELSE IF fault = "source slot"
         THEN [a EXCEPT !.message.data.source.slot = a.message.data.target.slot + 1,
                        !.message.data.target.slot = a.message.data.target.slot + 1]
    ELSE IF fault = "target slot"
         THEN [a EXCEPT !.message.data.target.slot = a.message.data.target.slot + 1]
    ELSE IF fault = "future"
         THEN [a EXCEPT !.message.data.slot = (S.time \div SECONDS_PER_SLOT) + 2]
    ELSE a

\* gossip attestations: a vote of any validator for any stored block, cast
\* in slot 0 or in the block's slot, and a vote for the head with one thing
\* wrong
AttestationInputs(S) ==
    {Vote(S, v, root, 0) : v \in Validators, root \in DOMAIN S.block}
    \cup {Vote(S, v, root, S.block[root].message.block.slot) :
             v \in Validators, root \in DOMAIN S.block}
    \cup {FaultyVote(S, Vote(S, 0, S.head, 0), fault) : fault \in AttestationFaults}

(***************************************************************************)
(* The fork-choice store: operations                                       *)
(***************************************************************************)
\* an operation that changes the store spends one of MaxSteps
Budget(S) == S # Store => used.steps < MaxSteps

Spend(S) == IF S # Store THEN [used EXCEPT !.steps = @ + 1] ELSE used

\* an operation that left the store as it was is followed no further: what
\* can follow it can follow the state it was called in
Live == result.changed

\* the store, the budget and the result after an operation that returned
\* the store S
Done(S, res) ==
    /\ Budget(S)
    /\ SetStore(S)
    /\ result' = [res EXCEPT !.changed = S # Store]
    /\ used' = Spend(S)

OnBlock(input, verify) ==
    LET done(r) ==
          /\ Budget(r.S)
          /\ SetStore(r.S)
          /\ hashes' = IF DOMAIN r.S.block = DOMAIN block THEN hashes ELSE r.reg
          /\ result' = [op |-> "on_block", status |-> r.status,
                        changed |-> r.S # Store]
          /\ used' = [Spend(r.S) EXCEPT !.vote_blocks =
                        IF input.signed_block.message.block.body.attestations # <<>>
                           /\ DOMAIN r.S.block # DOMAIN block
                        THEN @ + 1 ELSE @]
    IN
    /\ Live
    /\ done(on_block(input.reg, Store, input.signed_block, verify))
    /\ UNCHANGED <<state, serviceVars>>

OnAttestation(signed_attestation) ==
    LET done(r) ==
          Done(r.S, [op |-> "on_attestation", ok |-> r.ok, err |-> r.err,
                     changed |-> FALSE])
    IN
    /\ Live
    /\ done(on_attestation(Store, signed_attestation, FALSE))
    /\ UNCHANGED <<hashes, state, serviceVars>>

AcceptNewAttestations ==
    LET done(r) ==
          Done(r.S, [op |-> "accept_new_attestations", ok |-> r.ok, changed |-> FALSE])
    IN
    /\ Live
    /\ done(accept_new_attestations(Store))
    /\ UNCHANGED <<hashes, state, serviceVars>>

UpdateSafeTarget ==
    LET done(r) ==
          Done(r.S, [op |-> "update_safe_target", ok |-> r.ok, changed |-> FALSE])
    IN
    /\ Live
    /\ done(update_safe_target(Store))
    /\ UNCHANGED <<hashes, state, serviceVars>>

TickInterval(has_proposal) ==
    LET done(r) ==
          Done(r.S, [op |-> "tick_interval", ok |-> r.ok, called |-> r.called,
                     has_proposal |-> has_proposal, changed |-> FALSE])
    IN
    /\ Live
    /\ done(tick_interval(Store, has_proposal))
    /\ UNCHANGED <<hashes, state, serviceVars>>

\* two orders in which the latest-known pool is iterated: ascending and
\* descending validator index
PoolOrders ==
    {[i \in 1 .. NumValidators |-> i - 1],
     [i \in 1 .. NumValidators |-> NumValidators - i]}

ProduceBlock(slot, validator_index, order) ==
    LET done(r) ==
          /\ Done(r.S, [op |-> "produce_block_with_signatures", ok |-> r.ok,
                        err |-> r.err, slot |-> slot,
                        validator_index |-> validator_index,
                        block |-> r.block, signatures |-> r.signatures,
                        changed |-> FALSE])
          /\ hashes' = IF r.ok THEN r.reg ELSE hashes
    IN
    /\ Live
    /\ done(produce_block_with_signatures(hashes, Store, slot, validator_index, order))
    /\ UNCHANGED <<state, serviceVars>>

Next ==
    \/ \E input \in BlockInputs(hashes, Store), verify \in BOOLEAN :
          OnBlock(input, verify)
    \/ \E signed_attestation \in AttestationInputs(Store) :
          OnAttestation(signed_attestation)
    \/ AcceptNewAttestations
    \/ UpdateSafeTarget
    \/ \E has_proposal \in BOOLEAN : TickInterval(has_proposal)
    \/ \E slot \in 0 .. MaxSlot, validator_index \in Validators, order \in PoolOrders :
          ProduceBlock(slot, validator_index, order)

Spec == Init /\ [][Next]_vars

(***************************************************************************)
(* Claims on the fork-choice store                                         *)
(***************************************************************************)
Accepted == {"ok", "known"}

\* the result of on_block on an offered block
Offered(input, verify) == on_block(input.reg, Store, input.signed_block, verify)

\* one step of the store: neither checkpoint goes back in slots, and a
\* checkpoint that changes is the checkpoint of the post-state of a block
\* that on_block stored in this step, at a greater slot
C2_Step ==
    LET stored == (DOMAIN lean_state') \ (DOMAIN lean_state) IN
    /\ latest_justified'.slot >= latest_justified.slot
    /\ latest_finalized'.slot >= latest_finalized.slot
    /\ latest_justified' # latest_justified =>
          /\ result'.op = "on_block"
          /\ latest_justified'.slot > latest_justified.slot
          /\ \E root \in stored : latest_justified' = lean_state'[root].latest_justified
    /\ latest_finalized' # latest_finalized =>
          /\ result'.op = "on_block"
          /\ latest_finalized'.slot > latest_finalized.slot
          /\ \E root \in stored : latest_finalized' = lean_state'[root].latest_finalized

\* C2: no operation on the store lowers the slot of latest_justified or of
\* latest_finalized, and either changes only in an on_block that stores a
\* block whose post-state has that checkpoint at a greater slot.
C2_CheckpointsMonotonic == [][C2_Step]_vars

\* on_block has taken both checkpoints of the store past the anchor
C2_Witness ==
    /\ result.op = "on_block"
    /\ latest_finalized.slot >= 1
    /\ latest_justified.slot > latest_finalized.slot

\* the errors of on_block that are violations of a consensus rule
ConsensusErrors ==
    {"target slot", "slot", "older", "proposer", "parent", "no parent state",
     "state root", "failed to verify", "validator out of range"}

\* the offered block is not in the block table and breaks a consensus rule
Broken(input, verify) ==
    /\ block_root(input.reg, input.signed_block.message.block) \notin DOMAIN block
    /\ \/ input.fault \in {"slot", "proposer", "parent", "state_root"}
       \/ input.fault = "signature" /\ verify

\* C3: an on_block that fails on a consensus rule (slot, proposer, parent,
\* state root, signature) returns the store as it was called with, every
\* table and field; and a block that is not in the block table and breaks
\* one of these rules fails so.
C3_RejectedUnchanged ==
    Live =>
      \A input \in BlockInputs(hashes, Store), verify \in BOOLEAN :
         LET r == Offered(input, verify) IN
         /\ r.status \in ConsensusErrors => r.S = Store
         /\ Broken(input, verify) => r.status \in ConsensusErrors

\* on_block has rejected a block for its state root, in a store that holds
\* more than the anchor
C3_Witness ==
    /\ result.op = "on_block"
    /\ result.status = "state root"
    /\ ~result.changed
    /\ Cardinality(DOMAIN block) > 1
    /\ latest_new # EmptyTable

\* on_block called twice in a row with the same signed block
Twice(input, verify) ==
    LET first == Offered(input, verify)
        second == on_block(first.reg, first.S, input.signed_block, verify)
    IN [first |-> first, second |-> second,
        root |-> block_root(input.reg, input.signed_block.message.block)]

\* C4 as stated: the second of two on_block calls with the same signed block
\* changes nothing and returns Ok.
C4_SecondReturnsOk ==
    Live =>
      \A input \in BlockInputs(hashes, Store), verify \in BOOLEAN :
         LET t == Twice(input, verify) IN
         /\ t.second.S = t.first.S
         /\ t.second.status \in Accepted

\* C4: the second of two on_block calls with the same signed block changes
\* nothing; it returns Ok when the first call left the block in the block
\* table, and the error of the first call when that call rejected the block.
C4_Idempotent ==
    Live =>
      \A input \in BlockInputs(hashes, Store), verify \in BOOLEAN :
         LET t == Twice(input, verify) IN
         /\ t.second.S = t.first.S
         /\ t.root \in DOMAIN t.first.S.block => t.second.status \in Accepted
         /\ t.root \notin DOMAIN t.first.S.block =>
               /\ t.first.status \notin Accepted
               /\ t.second.status = t.first.status

\* on_block has been called with a block it had stored, and returned Ok
C4_Witness ==
    /\ result.op = "on_block"
    /\ result.status = "known"
    /\ ~result.changed

\* the orders in which a table with these keys may be iterated
Orders(keys) ==
    {f \in [1 .. Cardinality(keys) -> keys] :
        \A i, j \in 1 .. Cardinality(keys) : i # j => f[i] # f[j]}

\* C5: the head that update_head computes is the same for every order in
\* which the latest-known pool and the block table are iterated (the order
\* of the block table is the order of the children lists).
C5_HeadDeterministic ==
    Live =>
      \A pool_order \in Orders(DOMAIN latest_known),
         block_order \in Orders(DOMAIN block) :
         compute_lmd_ghost_head(Store,
             [i \in 1 .. Len(pool_order) |-> latest_known[pool_order[i]]],
             block_order, latest_justified.root, 0).head
         = update_head(Store).S.head

\* two blocks of the same slot and the same weight share a parent on the
\* way from latest_justified to the head
C5_Witness ==
    /\ result.op = "on_block"
    /\ result.status = "ok"
    /\ \E x, y \in DOMAIN block :
          /\ x # y
          /\ block[x].message.block.parent_root = latest_justified.root
          /\ block[y].message.block.parent_root = latest_justified.root
          /\ block[x].message.block.slot = block[y].message.block.slot
          /\ head \in {x, y}

\* root is the block `ancestor` or one of its descendants
RECURSIVE Descends(_, _, _)
Descends(S, root, ancestor) ==
    IF root = ancestor THEN TRUE
    ELSE IF root \notin DOMAIN S.block THEN FALSE
    ELSE Descends(S, S.block[root].message.block.parent_root, ancestor)

\* the attestations of the pool whose head is the block or a descendant
VotesFor(S, pool, root) ==
    Cardinality({v \in DOMAIN pool : Descends(S, pool[v].message.data.head.root, root)})

ChildrenOf(S, root) ==
    {c \in DOMAIN S.block : S.block[c].message.block.parent_root = root}

\* the child with the greatest (weight, slot, root)
Heaviest(S, pool, children) ==
    LET w(c) == VotesFor(S, pool, c)
        sl(c) == S.block[c].message.block.slot
        geq(c, d) == \/ w(c) > w(d)
                     \/ w(c) = w(d) /\ sl(c) > sl(d)
                     \/ w(c) = w(d) /\ sl(c) = sl(d) /\ c >= d
    IN CHOOSE c \in children : \A d \in children : geq(c, d)

RECURSIVE WalkFrom(_, _, _)
WalkFrom(S, pool, root) ==
    IF ChildrenOf(S, root) = {} THEN root
    ELSE WalkFrom(S, pool, Heaviest(S, pool, ChildrenOf(S, root)))

\* C6: from any stored block as the provided root and over either pool,
\* compute_lmd_ghost_head ends where the walk ends that moves at each block
\* to the child with the greatest (weight, slot, root), the weight of a
\* block being the number of attestations of the pool whose head is the
\* block or a descendant of it, and stops at a block without children.
C6_GhostWalk ==
    Live =>
      \A root \in DOMAIN block, pool \in {latest_known, latest_new} :
         compute_lmd_ghost_head(Store, Values(Pairs(pool)), BlockOrder(Store),
                                root, 0).head
         = WalkFrom(Store, pool, root)

\* the head descends from a block that has more votes than a sibling of a
\* later slot
C6_Witness ==
    /\ result.changed
    /\ \E x, y \in DOMAIN block :
          /\ block[x].message.block.parent_root = block[y].message.block.parent_root
          /\ VotesFor(Store, latest_known, x) > VotesFor(Store, latest_known, y)
          /\ block[x].message.block.slot < block[y].message.block.slot
          /\ Descends(Store, head, x)

\* the signature list of the signed block has not one signature for each
\* body attestation and one for the proposer attestation
WrongCount(signed_block) ==
    Len(signed_block.signature)
    # Len(signed_block.message.block.body.attestations) + 1

\* C7 as stated: on_block rejects every signed block with a signature list
\* of the wrong length, with or without verification, and the block is not
\* in the block table afterwards.
C7_RejectsWrongCount ==
    Live =>
      \A input \in BlockInputs(hashes, Store), verify \in BOOLEAN :
         LET r == Offered(input, verify) IN
         WrongCount(input.signed_block) =>
            /\ r.status \notin Accepted
            /\ block_root(input.reg, input.signed_block.message.block)
                  \notin DOMAIN r.S.block

\* C7: on_block rejects, with or without verification, every signed block
\* with a signature list of the wrong length whose block is not yet in the
\* block table, and changes nothing; for a block already in the block table
\* it returns Ok and changes nothing, whatever the signature list.
C7_RejectsWrongCountOfNew ==
    Live =>
      \A input \in BlockInputs(hashes, Store), verify \in BOOLEAN :
         LET r == Offered(input, verify)
             root == block_root(input.reg, input.signed_block.message.block)
         IN WrongCount(input.signed_block) =>
               /\ r.S = Store
               /\ root \notin DOMAIN block => r.status = "signature count"
               /\ root \in DOMAIN block => r.status = "known"

\* on_block has rejected a block for the length of its signature list
C7_Witness ==
    /\ result.op = "on_block"
    /\ result.status = "signature count"
    /\ ~result.changed

\* the slot of the entry of each validator in a pool that keeps an entry for
\* the validator does not go down
SlotsKept(pool, pool_after) ==
    \A v \in (DOMAIN pool) \cap (DOMAIN pool_after) :
       pool_after[v].message.data.slot >= pool[v].message.data.slot

\* C8 as stated: in neither pool does the slot of the attestation stored
\* for a validator go down while the pool keeps an entry for the validator.
C8_NewerSlotWins ==
    [][SlotsKept(latest_known, latest_known') /\ SlotsKept(latest_new, latest_new')]_vars

\* the operation a tick runs at an interval
Scheduled(interval, has_proposal) ==
    IF interval = 0 /\ has_proposal THEN "accept_new_attestations"
    ELSE IF interval = 2 THEN "update_safe_target"
    ELSE IF interval = 3 THEN "accept_new_attestations"
    ELSE "none"

\* the operations run by n ticks in a row with the same has_proposal
RECURSIVE Drive(_, _, _)
Drive(S, n, has_proposal) ==
    IF n = 0 THEN <<>>
    ELSE LET r == tick_interval(S, has_proposal)
         IN <<r.called>> \o Drive(r.S, n - 1, has_proposal)

Count(calls, called) == Cardinality({i \in 1 .. Len(calls) : calls[i] = called})

\* C9: a tick adds one to the time and runs, by the new time modulo 4,
\* accept_new_attestations at 0 when has_proposal, nothing at 1,
\* update_safe_target at 2 and accept_new_attestations at 3; and four ticks
\* from time 0 without proposal run accept_new_attestations once and
\* update_safe_target once.
C9_TickSchedule ==
    Live =>
      /\ \A has_proposal \in BOOLEAN :
            LET r == tick_interval(Store, has_proposal)
                ticked == [Store EXCEPT !.time = time + 1]
                called == Scheduled((time + 1) % 4, has_proposal)
            IN /\ r.S.time = time + 1
               /\ r.called = called
               /\ r.S = IF called = "accept_new_attestations"
                        THEN accept_new_attestations(ticked).S
                        ELSE IF called = "update_safe_target"
                        THEN update_safe_target(ticked).S
                        ELSE ticked
      /\ time = 0 =>
            LET calls == Drive(Store, 4, FALSE) IN
            /\ Count(calls, "accept_new_attestations") = 1
            /\ Count(calls, "update_safe_target") = 1

\* ticks without proposal from time 0, with an attestation waiting in the
\* latest-new pool, have come to the interval of update_safe_target
C9_Witness ==
    /\ result.op = "tick_interval"
    /\ result.called = "update_safe_target"
    /\ ~result.has_proposal
    /\ time = 2
    /\ latest_new # EmptyTable

\* the attestation names a root that is no stored block, or a source after
\* its target, or a checkpoint slot that is not the slot of its block
Invalid(S, signed_attestation) ==
    LET data == signed_attestation.message.data
        slot_of(root) == S.block[root].message.block.slot
    IN \/ data.source.root \notin DOMAIN S.block
       \/ data.target.root \notin DOMAIN S.block
       \/ data.head.root \notin DOMAIN S.block
       \/ data.source.slot > data.target.slot
       \/ data.source.root \in DOMAIN S.block
          /\ slot_of(data.source.root) # data.source.slot
       \/ data.target.root \in DOMAIN S.block
          /\ slot_of(data.target.root) # data.target.slot

\* C10: on_attestation, from gossip or from a block, fails and leaves both
\* pools as they were when the source, target or head root is no stored
\* block, when source.slot > target.slot, and when the slot of the source or
\* target checkpoint is not the slot of the stored block.
C10_InvalidAttestation ==
    Live =>
      \A signed_attestation \in AttestationInputs(Store), is_from_block \in BOOLEAN :
         LET r == on_attestation(Store, signed_attestation, is_from_block) IN
         Invalid(Store, signed_attestation) =>
            /\ ~r.ok
            /\ r.S.latest_known = latest_known
            /\ r.S.latest_new = latest_new

\* on_attestation has failed on the slot of the target checkpoint, with an
\* attestation in a pool
C10_Witness ==
    /\ result.op = "on_attestation"
    /\ result.err = "target slot mismatch"
    /\ ~result.changed
    /\ latest_new # EmptyTable

\* C11: with current_slot = time / seconds_per_slot, on_attestation fails on
\* every gossip attestation of a slot after current_slot and on every block
\* attestation of a slot after current_slot + 1; an attestation that names
\* stored blocks with the right slots is accepted from a block up to
\* current_slot + 1 and from gossip up to current_slot.
C11_AttestationSlotBound ==
    Live =>
      \A signed_attestation \in AttestationInputs(Store), is_from_block \in BOOLEAN :
         LET r == on_attestation(Store, signed_attestation, is_from_block)
             slot == signed_attestation.message.data.slot
             current_slot == time \div SECONDS_PER_SLOT
             limit == IF is_from_block THEN current_slot + 1 ELSE current_slot
         IN /\ slot > limit => ~r.ok /\ r.S = Store
            /\ slot <= limit /\ ~Invalid(Store, signed_attestation) => r.ok

\* on_attestation has refused a gossip attestation of the slot after the
\* current slot, which it takes from a block
C11_Witness ==
    /\ result.op = "on_attestation"
    /\ result.err = "future slot"
    /\ \E signed_attestation \in AttestationInputs(Store) :
          /\ signed_attestation.message.data.slot = (time \div SECONDS_PER_SLOT) + 1
          /\ ~on_attestation(Store, signed_attestation, FALSE).ok
          /\ on_attestation(Store, signed_attestation, TRUE).ok

(***************************************************************************)
(* Claims on process_attestations                                          *)
(***************************************************************************)
\* the validators recorded in the state as having voted for the root
Voted(st, root) ==
    {v \in Validators :
        \E i \in 1 .. Len(st.justifications_roots) :
           /\ st.justifications_roots[i] = root
           /\ st.justifications_validators[(i - 1) * NumValidators + v + 1]}

\* the attestation meets the six conditions of the filter in the state
Passes(st, att) ==
    LET source == att.data.source
        target == att.data.target
        n == Len(st.historical_block_hashes)
    IN /\ source.slot < n /\ target.slot < n
       /\ st.justified_slots[source.slot + 1]
       /\ ~st.justified_slots[target.slot + 1]
       /\ st.historical_block_hashes[source.slot + 1] = source.root
       /\ st.historical_block_hashes[target.slot + 1] = target.root
       /\ target.slot > source.slot
       /\ is_justifiable_slot(st.latest_finalized.slot, target.slot) = "yes"

\* the sets of validators that vote together in one list of attestations
Voters == (SUBSET Validators) \ {{}}

\* lists of attestations with the same data offered to process_attestations
\* in the state: by every set of validators, over every pair of checkpoints
\* of StateVotes, and by one validator twice
AttestationLists(st) ==
    LET data(v) == AttestationData(v[2].slot, v[2], v[2], v[1]) IN
    {Votes(V, data(v)) : V \in Voters, v \in StateVotes(st)}
    \cup {Votes({w}, data(v)) \o Votes({w}, data(v)) :
             w \in Validators, v \in StateVotes(st)}

VotersOf(atts) == {atts[i].validator_id : i \in 1 .. Len(atts)}

\* C12: in a state left by process_block, attestations that pass the filter
\* justify their target exactly when the distinct validators that have voted for the target root, those
\* recorded in the state and those of the list, number 3 * count >= 2 *
\* |validators|; then latest_justified is the target, the bit of the target
\* slot is set and the root leaves the justifications map; below the
\* threshold latest_justified and justified_slots stay and the root stays in
\* the map with the votes so far.
C12_JustificationThreshold ==
    result.op = "process_block" /\ state.historical_block_hashes # <<>> =>
      \A atts \in AttestationLists(state) :
         Passes(state, atts[1]) =>
            LET r == process_attestations(state, atts)
                target == atts[1].data.target
                voters == Voted(state, target.root) \cup VotersOf(atts)
            IN /\ r.ok
               /\ 3 * Cardinality(voters) >= 2 * NumValidators =>
                     /\ r.st.latest_justified = target
                     /\ r.st.justified_slots[target.slot + 1]
                     /\ Voted(r.st, target.root) = {}
                     /\ \A i \in 1 .. Len(r.st.justifications_roots) :
                           r.st.justifications_roots[i] # target.root
               /\ 3 * Cardinality(voters) < 2 * NumValidators =>
                     /\ r.st.latest_justified = state.latest_justified
                     /\ r.st.justified_slots = state.justified_slots
                     /\ Voted(r.st, target.root) = voters

\* a block has justified a slot after genesis on the votes of two of three
\* validators, and a later block has left one vote below the threshold
C12_Witness ==
    /\ result.op = "process_block"
    /\ result.ok
    /\ state.latest_justified.slot >= 1
    /\ state.justifications_roots # <<>>
    /\ \E root \in {state.justifications_roots[i] :
                      i \in 1 .. Len(state.justifications_roots)} :
          Cardinality(Voted(state, root)) = 1

(***************************************************************************)
(* LeanState driven by well-formed blocks over a longer history, for the   *)
(* finalization rule: the votes in the bodies stay arbitrary               *)
(***************************************************************************)
MaxFinalitySlot == 4

\* the validators voting in one body of a well-formed block: one below the
\* threshold, or two reaching it
ChainVoters == {{0}, {1}, {0, 1}}

\* blocks for the current slot by its proposer on the latest header, with
\* any body of votes over the checkpoints of the history the block extends
ChainBlocks ==
    LET b == [slot |-> state.slot, proposer_index |-> state.slot % NumValidators,
              parent_root |-> tree_hash_root(hashes, state.latest_block_header),
              state_root |-> ZERO, body |-> EmptyBody]
        voted(h) ==
            IF ~h.ok \/ used.vote_blocks >= MaxVoteBlocks THEN {<<>>}
            ELSE {<<>>} \cup
                 {Votes(V, AttestationData(v[2].slot, v[2], v[2], v[1])) :
                     V \in ChainVoters, v \in StateVotes(h.st)}
    IN {[b EXCEPT !.body = BlockBody(atts)] :
           atts \in voted(process_block_header(hashes, state, b))}

NextFinality ==
    \/ \E target_slot \in 1 .. MaxFinalitySlot : ProcessSlots(target_slot)
    \/ \E b \in ChainBlocks : ProcessBlock(b)

SpecFinality == Init /\ [][NextFinality]_vars

\* slot s, not before the finalized slot, may carry justification votes
Justifiable(finalized_slot, s) ==
    LET d == s - finalized_slot IN
    \/ d <= 5
    \/ \E k \in 0 .. d : k * k = d
    \/ \E k \in 0 .. (4 * d + 1) : k * k = 4 * d + 1 /\ k % 2 = 1

SingleAttestations(st) ==
    {Attestation(w, AttestationData(v[2].slot, v[2], v[2], v[1])) :
        w \in Validators, v \in StateVotes(st)}

\* C14 as stated: in a state left by process_block, process_attestations
\* returns Ok on an attestation that misses a condition of the filter, also
\* one whose source or target slot is beyond the history, and leaves
\* latest_justified, latest_finalized, justified_slots and the
\* justifications as they were.
C14_SkipsNeverFails ==
    result.op = "process_block" /\ state.historical_block_hashes # <<>> =>
      \A att \in SingleAttestations(state) :
         ~Passes(state, att) =>
            LET r == process_attestations(state, <<att>>) IN
            /\ r.ok
            /\ r.st.latest_justified = state.latest_justified
            /\ r.st.latest_finalized = state.latest_finalized
            /\ r.st.justified_slots = state.justified_slots
            /\ r.st.justifications_roots = state.justifications_roots
            /\ r.st.justifications_validators = state.justifications_validators

(***************************************************************************)
(* Claims on the invariants of LeanState                                   *)
(***************************************************************************)
\* C15: in every state reached from genesis by process_slots and
\* process_block, justified_slots has one bit per entry of
\* historical_block_hashes, also after a block that skipped empty slots, and
\* once a block has been processed (the history is not empty) bit 0 is set.
C15_OneBitPerSlot ==
    /\ Len(state.justified_slots) = Len(state.historical_block_hashes)
    /\ state.historical_block_hashes # <<>> => state.justified_slots[1]

\* a block that skipped an empty slot has been processed
C15_Witness ==
    /\ result.op = "process_block"
    /\ result.ok
    /\ Len(state.historical_block_hashes) >= 2
    /\ \E i \in 1 .. Len(state.historical_block_hashes) :
          state.historical_block_hashes[i] = ZERO
    /\ state.justified_slots[1]

\* C16 as stated: in every state reached from genesis by process_slots and
\* process_block with arbitrary attestations, a set bit of justified_slots
\* is at slot 0 or at a slot whose entry of historical_block_hashes is not
\* the zero root: an empty slot is never justified.
C16_EmptySlotNeverJustified ==
    \A i \in 1 .. Len(state.justified_slots) :
       (state.justified_slots[i] /\ i <= Len(state.historical_block_hashes)) =>
          (state.historical_block_hashes[i] # ZERO \/ i = 1)

\* C17: the slot of the state never decreases over process_slots and
\* process_block: process_slots(target) with target <= slot fails and leaves
\* the state as it was, process_slots(target) with target > slot returns Ok
\* with slot = target, and process_block leaves slot as it was.
C17_SlotMonotonic ==
    [][/\ state'.slot >= state.slot
       /\ result'.op = "process_slots" =>
            IF result'.target <= state.slot
            THEN ~result'.ok /\ state' = state
            ELSE result'.ok /\ state'.slot = result'.target
       /\ result'.op = "process_block" => state'.slot = state.slot]_vars

\* process_slots has refused a target that is not after the slot of a state
\* that holds a block
C17_Witness ==
    /\ result.op = "process_slots"
    /\ ~result.ok
    /\ result.target <= state.slot
    /\ state.latest_block_header.slot >= 1

(***************************************************************************)
(* Claims on process_block_header                                          *)
(***************************************************************************)
\* headers offered to process_block_header in the state: at the slot of the
\* state, before it and after it, by every validator, on the right parent
\* and on a wrong one
HeaderBlocks ==
    {[slot |-> sl, proposer_index |-> p, parent_root |-> pr,
      state_root |-> ZERO, body |-> EmptyBody] :
        sl \in {s \in {state.slot - 1, state.slot, state.slot + 2} : s >= 0},
        p \in Validators,
        pr \in {tree_hash_root(hashes, state.latest_block_header), ZERO}}

\* C18: process_block_header fails and leaves the state as it was when
\* block.slot # state.slot, or block.slot <= latest_block_header.slot, or
\* block.proposer_index # block.slot mod |validators|, or block.parent_root
\* is not the hash of latest_block_header.
C18_HeaderRefused ==
    \A b \in HeaderBlocks :
       (\/ b.slot # state.slot
        \/ b.slot <= state.latest_block_header.slot
        \/ b.proposer_index # b.slot % NumValidators
        \/ b.parent_root # tree_hash_root(hashes, state.latest_block_header)) =>
          /\ ~process_block_header(hashes, state, b).ok
          /\ process_block_header(hashes, state, b).st = state

\* a block of another slot has been refused, and in the state a header at
\* the slot of the state, by its proposer and on the right parent, is
\* refused only because the latest header is of that slot already
C18_Witness ==
    /\ result.op = "process_block"
    /\ ~result.ok
    /\ result.slot # state.slot
    /\ \E b \in HeaderBlocks :
          /\ b.slot = state.slot
          /\ b.proposer_index = b.slot % NumValidators
          /\ b.parent_root = tree_hash_root(hashes, state.latest_block_header)
          /\ b.slot <= state.latest_block_header.slot
          /\ b.slot >= 1
          /\ ~process_block_header(hashes, state, b).ok

(***************************************************************************)
(* is_justifiable_after driven directly                                    *)
(***************************************************************************)
\* the inputs of one call: two slots of the word and the build's overflow
\* checks; the rest of the state is as in Init
InitJustifiable ==
    /\ \E candidate_slot \in Word, finalized_slot \in Word,
          overflow_checks \in BOOLEAN :
          result = [op |-> "input",
                    candidate_slot |-> candidate_slot,
                    finalized_slot |-> finalized_slot,
                    overflow_checks |-> overflow_checks]
    /\ InitStore
    /\ chain = ChainInit
    /\ validator = ValidatorInit(<<>>)

IsJustifiableAfter ==
    /\ result.op = "input"
    /\ result' = [op |-> "is_justifiable_after",
                  candidate_slot |-> result.candidate_slot,
                  finalized_slot |-> result.finalized_slot,
                  overflow_checks |-> result.overflow_checks,
                  out |-> is_justifiable_after(result.candidate_slot,
                                               result.finalized_slot,
                                               result.overflow_checks)]
    /\ UNCHANGED <<hashes, state, used, storeVars, serviceVars>>

NextJustifiable == IsJustifiableAfter

SpecJustifiable == InitJustifiable /\ [][NextJustifiable]_vars

\* C19 as stated: is_justifiable fails when candidate_slot < finalized_slot
\* and otherwise, with d = candidate_slot - finalized_slot, returns true if
\* and only if d <= 5, or d is a perfect square, or 4d+1 is an odd perfect
\* square.
C19_JustifiableIff ==
    result.op = "is_justifiable_after" =>
       result.out = IF result.candidate_slot < result.finalized_slot THEN "fail"
                    ELSE IF Justifiable(result.finalized_slot, result.candidate_slot)
                         THEN "yes" ELSE "no"

(***************************************************************************)
(* Claims on produce_block_with_signatures                                 *)
(***************************************************************************)
\* C20: produce_block_with_signatures(slot, validator) fails and returns no
\* block when validator # slot mod |validators| of the head state.
C20_NotProposerFails ==
    (/\ result.op = "produce_block_with_signatures"
     /\ result.validator_index # result.slot % NumValidators) =>
        /\ ~result.ok
        /\ result.block = "none"

\* a call by a validator that is not the proposer of the slot has moved the
\* store to the slot and has been refused by the proposer check
C20_Witness ==
    /\ result.op = "produce_block_with_signatures"
    /\ result.validator_index # result.slot % NumValidators
    /\ result.slot >= 1
    /\ result.err = "proposer"
    /\ result.changed
    /\ time = result.slot * SECONDS_PER_SLOT

\* the produced block of the last call, signed: the proposer attestation is
\* built by produce_attestation_data on the store the call left, and the
\* proposer signature is appended to the returned signatures
ProducedSigned(pa) ==
    Signed(result.block, Attestation(result.block.proposer_index, pa.data),
           Append(result.signatures, "good"))

\* the head state taken through process_slots and process_block of the block
Transitioned(b) ==
    LET advanced(s) == process_block(s.reg, s.st, b)
    IN advanced(process_slots(hashes, lean_state[b.parent_root], b.slot))

MaxTicks == 6           \* ticks each service handles
MaxNetwork == 1         \* messages the network sends to the chain service

\* a backend failure of one store call of the tick handler, or none
TickFaults ==
    {"none", "tick_interval", "head", "update_safe_target", "accept_new_attestations"}

\* the tick branch of the loop: the store and the service after it; a store
\* call named by fault fails before it has written anything
chain_tick(S, c, fault) ==
    LET ended(P, status) == [S |-> P, chain |-> [c EXCEPT !.status = status,
                                                         !.tick_ready = FALSE]]
        counted(P) == [S |-> P, chain |-> [c EXCEPT !.tick_count = @ + 1,
                                                    !.tick_ready = FALSE]]
        expected(r) == IF r.ok THEN counted(r.S) ELSE ended(r.S, "panicked")
        ticked(t) ==
          IF ~t.ok THEN ended(t.S, "panicked")
          ELSE IF c.tick_count % 4 = 0
               THEN IF fault = "head" \/ t.S.head \notin DOMAIN t.S.lean_state
                    THEN ended(t.S, "failed")
                    ELSE counted(t.S)
          ELSE IF c.tick_count % 4 = 2
               THEN IF fault = "update_safe_target" THEN ended(t.S, "panicked")
                    ELSE expected(update_safe_target(t.S))
          ELSE IF c.tick_count % 4 = 3
               THEN IF fault = "accept_new_attestations" THEN ended(t.S, "panicked")
                    ELSE expected(accept_new_attestations(t.S))
          ELSE counted(t.S)
    IN IF fault = "tick_interval" THEN ended(S, "panicked")
       ELSE ticked(tick_interval(S, c.tick_count % 4 = 1))

\* the faults that name a store call of this tick
FaultsOf(tick_count) ==
    {"none", "tick_interval"}
    \cup (IF tick_count % 4 = 0 THEN {"head"}
          ELSE IF tick_count % 4 = 2 THEN {"update_safe_target"}
          ELSE IF tick_count % 4 = 3 THEN {"accept_new_attestations"}
          ELSE {})

\* an Err of a message handler ends the loop
Logged_Returned(c, ok) == IF ok THEN c ELSE [c EXCEPT !.status = "failed"]

\* if let Err(err) = handler { warn!(..) }: the error is logged, logged
\* counts the lines
Logged(c, ok) == IF ok THEN c ELSE [c EXCEPT !.logged = @ + 1]

\* outbound_gossip.send when need_gossip
Gossiped(c, need_gossip, request) ==
    IF need_gossip THEN [c EXCEPT !.outbound_gossip = Append(@, request)] ELSE c

\* the message branch of the loop for the first message of the inbox: the
\* store, the preimages, the service, the reply on the message's reply
\* channel (NoReply when the message has none, Dropped when the handler
\* failed before it replied) and the Result of the store call
chain_message(reg, S, c, order) ==
    LET message == Head(c.receiver)
        rest == [c EXCEPT !.receiver = Tail(@)]
        out(P, r, c1, reply, ok, err) ==
          [S |-> P, reg |-> r, chain |-> c1, reply |-> reply, ok |-> ok, err |-> err]
        produced(p) ==
          out(p.S, IF p.ok THEN p.reg ELSE reg, Logged(rest, p.ok),
              IF p.ok THEN [kind |-> "block", block |-> p.block,
                            signatures |-> p.signatures]
              ELSE Dropped, p.ok, p.err)
        built(d) == out(S, reg, Logged(rest, d.ok),
                       IF d.ok THEN [kind |-> "data", data |-> d.data] ELSE Dropped,
                       d.ok, IF d.ok THEN "none" ELSE "attestation data")
        blocked(b) ==
          out(b.S, IF DOMAIN b.S.block = DOMAIN S.block THEN reg ELSE b.reg,
              IF b.status = "panic" THEN [rest EXCEPT !.status = "panicked"]
              ELSE Gossiped(Logged(rest, b.status \in {"ok", "known"}),
                            message.need_gossip,
                            [type |-> "GossipBlock",
                             item |-> message.signed_block_with_attestation]),
              NoReply, b.status \in {"ok", "known"}, b.status)
        attested(a) ==
          out(a.S, reg,
              Gossiped(Logged(rest, a.ok), message.need_gossip,
                       [type |-> "GossipAttestation",
                        item |-> message.signed_attestation]),
              NoReply, a.ok, a.err)
        canonical ==
          IF message.checkpoint.slot < 5 THEN TRUE
          ELSE IF message.checkpoint.slot \in DOMAIN S.slot_index
               THEN S.slot_index[message.checkpoint.slot] = message.checkpoint.root
          ELSE TRUE
    IN IF message.type = "ProduceBlock"
       THEN produced(produce_block_with_signatures(
                       reg, S, message.slot, message.slot % NumValidators, order))
       ELSE IF message.type = "BuildAttestationData"
       THEN built(produce_attestation_data(S, message.slot))
       ELSE IF message.type = "ProcessBlock"
       THEN blocked(on_block(reg, S, message.signed_block_with_attestation, TRUE))
       ELSE IF message.type = "ProcessAttestation"
       THEN attested(on_attestation(S, message.signed_attestation, FALSE))
       ELSE out(S, reg, rest,
                [kind |-> "canonical", peer_id |-> message.peer_id,
                 is_canonical |-> canonical], TRUE, "none")

(***************************************************************************)
(* ValidatorService (validator/lean/src/service.rs)                        *)
(*                                                                         *)
(* keystores is the list of the validator indices of the keystores, in the *)
(* order of the list.  pc is "idle" between ticks and names the reply the  *)
(* tick branch awaits otherwise; the tick is counted when its branch ends. *)
(***************************************************************************)
\* chain_sender.send: the message joins the inbox; it fails when the chain
\* service has ended and dropped the receiver
Sent(c, message) == [c EXCEPT !.receiver = Append(@, message)]

RECURSIVE SentAll(_, _)
SentAll(c, messages) ==
    IF messages = <<>> THEN c ELSE SentAll(Sent(c, Head(messages)), Tail(messages))

\* the proposer looked up by its position in the list
keystore_is_proposer_ByPosition(keystores, slot) ==
    slot % NumValidators < Len(keystores)

\* ValidatorService::is_proposer: a keystore with the proposer's index
keystore_is_proposer(keystores, slot) ==
    \E i \in 1 .. Len(keystores) : keystores[i] = slot % NumValidators

\* the attestations of the t=1/4 tick: one for each keystore whose position
\* in the list, counted from 0, is not slot mod num_validators
RECURSIVE SignedAttestations(_, _, _, _)
SignedAttestations(keystores, position, slot, data) ==
    IF keystores = <<>> THEN <<>>
    ELSE (IF position # slot % NumValidators
          THEN <<[type |-> "ProcessAttestation",
                  signed_attestation |->
                      [message |-> Attestation(Head(keystores), data),
                       signature |-> "good"],
                  need_gossip |-> TRUE]>>
          ELSE <<>>)
         \o SignedAttestations(Tail(keystores), position + 1, slot, data)

\* the tick branch up to its first await, or to its end
validator_tick(v, c) ==
    LET slot == v.tick_count \div 4
        ticked == [v EXCEPT !.tick_count = @ + 1, !.tick_ready = FALSE]
        asked(pc, message) ==
          IF c.status # "running"
          THEN [validator |-> [v EXCEPT !.status = "panicked", !.tick_ready = FALSE],
                chain |-> c]
          ELSE [validator |-> [v EXCEPT !.pc = pc, !.tick_ready = FALSE],
                chain |-> Sent(c, message)]
    IN IF v.tick_count % 4 = 0
       THEN IF slot > 0 /\ keystore_is_proposer(v.keystores, slot)
            THEN asked("await_block", [type |-> "ProduceBlock", slot |-> slot])
            ELSE [validator |-> ticked, chain |-> c]
       ELSE IF v.tick_count % 4 = 1
       THEN asked("await_data", [type |-> "BuildAttestationData", slot |-> slot])
       ELSE [validator |-> ticked, chain |-> c]

\* the tick branch after an await, with what the reply channel gave
validator_receive(v, c, reply) ==
    LET slot == v.tick_count \div 4
        ended(status) ==
          [validator |-> [v EXCEPT !.status = status, !.reply = NoReply], chain |-> c]
        finished(messages) ==
          IF messages # <<>> /\ c.status # "running" THEN ended("failed")
          ELSE [validator |-> [v EXCEPT !.tick_count = @ + 1, !.pc = "idle",
                                        !.reply = NoReply, !.held = NoReply],
                chain |-> SentAll(c, messages)]
    IN IF reply = Dropped THEN ended("panicked")
       ELSE IF v.pc = "await_block"
       THEN IF c.status # "running" THEN ended("panicked")
            ELSE [validator |-> [v EXCEPT !.pc = "await_block_data",
                                          !.reply = NoReply, !.held = reply],
                  chain |-> Sent(c, [type |-> "BuildAttestationData", slot |-> slot])]
       ELSE IF v.pc = "await_block_data"
       THEN finished(<<[type |-> "ProcessBlock",
                        signed_block_with_attestation |->
                            Signed(v.held.block,
                                   Attestation(slot % NumValidators, reply.data),
                                   Append(v.held.signatures, "good")),
                        need_gossip |-> TRUE]>>)
       ELSE finished(SignedAttestations(v.keystores, 0, slot, reply.data))

(***************************************************************************)
(* The node: both services on one store, the clock and the network         *)
(***************************************************************************)
\* keystore lists of the node: one validator that is not at its own
\* position, two validators in reverse order, and all validators in order
KeystoreLists == {<<1>>, <<1, 0>>, <<0, 1, 2>>}

InitNode ==
    /\ InitStore
    /\ result = [op |-> "init", changed |-> TRUE]
    /\ chain = ChainInit
    /\ \E keystores \in KeystoreLists : validator = ValidatorInit(keystores)

\* what the network sends: the block after the head, right or with one
\* thing wrong, votes for the head, right or with one thing wrong, and a
\* question about the anchor checkpoint; reg holds the preimages hashed to make it
NetworkMessages(reg, S) ==
    LET slot == S.block[S.head].message.block.slot + 1
        offer == Offer(reg, S, S.head, slot, <<>>)
        blocks == {offer} \cup {[offer EXCEPT !.signed_block = Faulty(S, @, fault)] :
                                   fault \in {"proposer", "state_root"}}
        votes == {Vote(S, 0, S.head, S.block[S.head].message.block.slot),
                  FaultyVote(S, Vote(S, 0, S.head, 0), "unknown head")}
    IN {[message |-> [type |-> "ProcessBlock",
                      signed_block_with_attestation |-> b.signed_block,
                      need_gossip |-> need_gossip],
         reg |-> b.reg] : b \in blocks, need_gossip \in BOOLEAN}
       \cup {[message |-> [type |-> "ProcessAttestation",
                           signed_attestation |-> a,
                           need_gossip |-> need_gossip],
              reg |-> reg] : a \in votes, need_gossip \in BOOLEAN}
       \cup {[message |-> [type |-> "CheckIfCanonicalCheckpoint", peer_id |-> 1,
                           checkpoint |-> Checkpoint(root, 0)],
              reg |-> reg] : root \in {AnchorRoot}}

\* the clock: the intervals of both services fire, once the tick before has
\* been taken by every service that still runs
Clock ==
    LET fired(service) ==
          IF service.status = "running" /\ service.tick_count < MaxTicks
          THEN [service EXCEPT !.tick_ready = TRUE] ELSE service
    IN
    /\ ~chain.tick_ready
    /\ ~validator.tick_ready
    /\ validator.pc = "idle"
    /\ fired(chain) # chain \/ fired(validator) # validator
    /\ chain' = fired(chain)
    /\ validator' = fired(validator)
    /\ result' = [op |-> "clock", changed |-> TRUE]
    /\ UNCHANGED <<hashes, state, used, storeVars, writer>>

NetworkSend(input) ==
    /\ used.network < MaxNetwork
    /\ chain.status = "running"
    /\ chain' = Sent(chain, input.message)
    /\ hashes' = input.reg
    /\ used' = [used EXCEPT !.network = @ + 1]
    /\ result' = [op |-> "network_send", type |-> input.message.type,
                  changed |-> TRUE]
    /\ UNCHANGED <<state, storeVars, validator, writer>>

\* the tick branch of the chain service; message_ready tells whether the
\* inbox held a message when the branch was taken
ChainTick(fault) ==
    LET done(r) ==
          /\ SetStore(r.S)
          /\ chain' = r.chain
          /\ result' = [op |-> "chain_tick", tick |-> chain.tick_count,
                        fault |-> fault, status |-> r.chain.status,
                        message_ready |-> chain.receiver # <<>>,
                        changed |-> TRUE]
    IN
    /\ chain.status = "running"
    /\ chain.tick_ready
    /\ done(chain_tick(Store, chain, fault))
    /\ UNCHANGED <<hashes, state, used, validator, writer>>

\* the message branch of the chain service; tick_ready tells whether the
\* interval had fired when the branch was taken
ChainMessage(order) ==
    LET message == Head(chain.receiver)
        done(r) ==
          /\ SetStore(r.S)
          /\ hashes' = r.reg
          /\ chain' = r.chain
          /\ validator' = IF message.type \in {"ProduceBlock", "BuildAttestationData"}
                          THEN [validator EXCEPT !.reply = r.reply]
                          ELSE validator
          /\ result' = [op |-> "chain_message", message |-> message, ok |-> r.ok,
                        err |-> r.err, reply |-> r.reply,
                        status |-> r.chain.status,
                        gossiped |-> Len(r.chain.outbound_gossip)
                                       > Len(chain.outbound_gossip),
                        tick_ready |-> chain.tick_ready, changed |-> TRUE]
    IN
    /\ chain.status = "running"
    /\ chain.receiver # <<>>
    /\ done(chain_message(hashes, Store, chain, order))
    /\ UNCHANGED <<state, used, writer>>

ValidatorTick ==
    LET done(r) ==
          /\ validator' = r.validator
          /\ chain' = r.chain
          /\ result' = [op |-> "validator_tick", tick |-> validator.tick_count,
                        status |-> r.validator.status,
                        sent |-> SubSeq(r.chain.receiver, Len(chain.receiver) + 1,
                                        Len(r.chain.receiver)),
                        changed |-> TRUE]
    IN
    /\ validator.status = "running"
    /\ validator.tick_ready
    /\ validator.pc = "idle"
    /\ done(validator_tick(validator, chain))
    /\ UNCHANGED <<hashes, state, used, storeVars, writer>>

\* an await of the validator service ends: with the reply, or with an error
\* when the chain service has dropped the reply channel
ValidatorReceive ==
    LET done(r) ==
          /\ validator' = r.validator
          /\ chain' = r.chain
          /\ result' = [op |-> "validator_receive", tick |-> validator.tick_count,
                        pc |-> validator.pc, status |-> r.validator.status,
                        sent |-> SubSeq(r.chain.receiver, Len(chain.receiver) + 1,
                                        Len(r.chain.receiver)),
                        changed |-> TRUE]
    IN
    /\ validator.status = "running"
    /\ validator.pc # "idle"
    /\ validator.reply # NoReply \/ chain.status # "running"
    /\ done(validator_receive(validator, chain,
                              IF validator.reply # NoReply THEN validator.reply
                              ELSE Dropped))
    /\ UNCHANGED <<hashes, state, used, storeVars, writer>>

NextNode ==
    \/ Clock
    \/ \E input \in NetworkMessages(hashes, Store) : NetworkSend(input)
    \/ \E fault \in FaultsOf(chain.tick_count) : ChainTick(fault)
    \/ \E order \in PoolOrders : ChainMessage(order)
    \/ ValidatorTick
    \/ ValidatorReceive

SpecNode == InitNode /\ [][NextNode]_vars

(***************************************************************************)
(* Claims on the chain service                                             *)
(***************************************************************************)
Processing == {"ProcessBlock", "ProcessAttestation"}

\* C22 as stated: for ProcessBlock and ProcessAttestation the chain service
\* forwards the item to the outbound-gossip channel only when on_block or
\* on_attestation succeeded and need_gossip is true; a rejected item is
\* never gossiped.
C22_GossipOnlyAccepted ==
    (result.op = "chain_message" /\ result.message.type \in Processing) =>
       (result.gossiped <=> (result.ok /\ result.message.need_gossip))

\* C23: an Err that on_block or on_attestation returns while the chain
\* service handles ProcessBlock or ProcessAttestation leaves the service
\* loop running: neither start returns nor the service panics.
C23_HandlerErrorAbsorbed ==
    (/\ result.op = "chain_message"
     /\ result.message.type \in Processing
     /\ ~result.ok
     /\ result.err # "panic") =>
        /\ result.status = "running"
        /\ chain.status = "running"

\* after an error of on_block or on_attestation was logged the service has
\* handled a tick and still runs
C23_Witness ==
    /\ result.op = "chain_tick"
    /\ result.fault = "none"
    /\ chain.logged >= 1
    /\ chain.status = "running"
    /\ chain.outbound_gossip # <<>>

\* C24 as stated: a store error raised while the chain service handles a
\* tick (in tick_interval, reading the head, update_safe_target or
\* accept_new_attestations) leaves the service loop running.
C24_TickErrorAbsorbed ==
    (result.op = "chain_tick" /\ result.fault # "none") =>
        result.status = "running"

\* C29 as stated: when a tick and an inbound message are both ready, the
\* chain service handles the tick first: the message branch is never taken
\* while the interval has fired.
C29_TickFirst ==
    result.op = "chain_message" => ~result.tick_ready

(***************************************************************************)
(* Claims on the validator service                                         *)
(***************************************************************************)
\* the validator indices of a keystore list
IndicesOf(keystores) == {keystores[i] : i \in 1 .. Len(keystores)}

\* C27 as stated: at tick%4 == 1 the validator service sends one
\* ProcessAttestation with need_gossip = true for every keystore whose
\* validator index differs from slot mod num_validators and none for the
\* keystore of the slot's proposer, whatever the order of the keystore list.
C27_AttestersByIndex ==
    (/\ result.op = "validator_receive"
     /\ result.pc = "await_data"
     /\ result.status = "running") =>
        LET slot == result.tick \div 4
            expected == IndicesOf(validator.keystores) \ {slot % NumValidators}
            sent == result.sent
        IN /\ \A i \in 1 .. Len(sent) :
                /\ sent[i].type = "ProcessAttestation"
                /\ sent[i].need_gossip
           /\ {sent[i].signed_attestation.message.validator_id :
                  i \in 1 .. Len(sent)} = expected
           /\ Len(sent) = Cardinality(expected)

\* C28: at tick%4 == 0 the validator service requests ProduceBlock{slot}
\* exactly when slot > 0 and a keystore has index slot mod num_validators;
\* once the block has arrived it requests BuildAttestationData{slot}; once
\* the data has arrived it sends one ProcessBlock with need_gossip = true
\* that carries the produced block, the proposer's attestation and the
\* received signatures followed by the proposer's signature; no other step
\* of the service sends a ProcessBlock, and the tick of a slot is never
\* taken twice.
C28_ProposalSequence ==
    [][LET slot == validator.tick_count \div 4
           sent == result'.sent
           running == result'.status = "running"
       IN /\ (result'.op = "validator_tick" /\ validator.tick_count % 4 = 0
                 /\ running) =>
                IF slot > 0 /\ slot % NumValidators \in IndicesOf(validator.keystores)
                THEN /\ sent = <<[type |-> "ProduceBlock", slot |-> slot]>>
                     /\ validator'.pc = "await_block"
                ELSE /\ sent = <<>>
                     /\ validator'.pc = "idle"
          /\ (result'.op = "validator_receive" /\ validator.pc = "await_block"
                 /\ running) =>
                /\ sent = <<[type |-> "BuildAttestationData", slot |-> slot]>>
                /\ validator'.pc = "await_block_data"
          /\ (result'.op = "validator_receive" /\ validator.pc = "await_block_data"
                 /\ running) =>
                /\ Len(sent) = 1
                /\ sent[1].type = "ProcessBlock"
                /\ sent[1].need_gossip
                /\ LET signed == sent[1].signed_block_with_attestation
                       signatures == signed.signature
                   IN /\ signed.message.block = validator.held.block
                      /\ signed.message.block.slot = slot
                      /\ signed.message.proposer_attestation
                            = Attestation(slot % NumValidators, validator.reply.data)
                      /\ Len(signatures) = Len(validator.held.signatures) + 1
                      /\ SubSeq(signatures, 1, Len(signatures) - 1)
                            = validator.held.signatures
                      /\ signatures[Len(signatures)] = "good"
                /\ validator'.tick_count = validator.tick_count + 1
          /\ (result'.op \in {"validator_tick", "validator_receive"}
                 /\ \E i \in 1 .. Len(sent) : sent[i].type = "ProcessBlock") =>
                validator.pc = "await_block_data"
          /\ validator'.tick_count >= validator.tick_count
      ]_vars

\* a validator that proposes has sent the block it was given, with the
\* signatures of the packed attestations before its own, and the chain
\* service has taken the block into the store
C28_Witness ==
    /\ result.op = "chain_message"
    /\ result.message.type = "ProcessBlock"
    /\ result.ok
    /\ result.message.need_gossip
    /\ Len(result.message.signed_block_with_attestation.signature) >= 2
    /\ validator.tick_count >= 5
    /\ validator.status = "running"

(***************************************************************************)
(* Claims on attestations taken from a block                               *)
(***************************************************************************)
\* the pools of after are those of S after an attestation of the validator
\* was taken from a block as the claim says
FromBlockAsClaimed(S, signed_attestation, after) ==
    LET validator_id == signed_attestation.message.validator_id
        slot == signed_attestation.message.data.slot
        stores == validator_id \notin DOMAIN S.latest_known
                  \/ S.latest_known[validator_id].message.data.slot < slot
        removes == /\ validator_id \in DOMAIN S.latest_new
                   /\ S.latest_new[validator_id].message.data.slot <= slot
    IN /\ IF stores
          THEN /\ DOMAIN after.latest_known = DOMAIN S.latest_known \cup {validator_id}
               /\ after.latest_known[validator_id] = signed_attestation
               /\ \A v \in DOMAIN S.latest_known \ {validator_id} :
                     after.latest_known[v] = S.latest_known[v]
          ELSE after.latest_known = S.latest_known
       /\ IF removes
          THEN /\ DOMAIN after.latest_new = DOMAIN S.latest_new \ {validator_id}
               /\ \A v \in DOMAIN after.latest_new :
                     after.latest_new[v] = S.latest_new[v]
          ELSE after.latest_new = S.latest_new
       /\ [after EXCEPT !.latest_known = S.latest_known,
                        !.latest_new = S.latest_new] = S

\* C30: on_attestation with is_from_block = true that passes validation
\* stores the attestation in latest-known exactly when the validator has no
\* latest-known entry or the stored entry has a strictly smaller slot, and
\* removes the validator's latest-new entry exactly when one exists with
\* slot <= the attestation's slot; a strictly newer latest-new entry stays.
C30_FromBlockPools ==
    Live =>
      \A signed_attestation \in AttestationInputs(Store) :
         LET asClaimed(r) ==
               r.ok => FromBlockAsClaimed(Store, signed_attestation, r.S)
         IN asClaimed(on_attestation(Store, signed_attestation, TRUE))

\* after a block with attestations was taken: one vote that replaces an
\* older latest-known entry and removes the latest-new entry of its own
\* slot, and one vote older than both entries of its validator
C30_Witness ==
    /\ result.op = "on_block"
    /\ result.status = "ok"
    /\ latest_known # EmptyTable
    /\ \E a \in AttestationInputs(Store) :
          LET v == a.message.validator_id
              slot == a.message.data.slot
          IN /\ on_attestation(Store, a, TRUE).ok
             /\ v \in DOMAIN latest_known
             /\ latest_known[v].message.data.slot < slot
             /\ v \in DOMAIN latest_new
             /\ latest_new[v].message.data.slot = slot
    /\ \E a \in AttestationInputs(Store) :
          LET v == a.message.validator_id
              slot == a.message.data.slot
          IN /\ on_attestation(Store, a, TRUE).ok
             /\ v \in DOMAIN latest_known
             /\ latest_known[v].message.data.slot > slot
             /\ v \in DOMAIN latest_new
             /\ latest_new[v].message.data.slot > slot

(***************************************************************************)
(* The inserts of on_block, commit by commit                               *)
(*                                                                         *)
(* Every table insert and every field insert is a write transaction of its *)
(* own that is committed before the next one begins, and on_block holds    *)
(* the database mutex only while it takes the providers.  A reader of the  *)
(* database sees the store between any two commits, and a process that     *)
(* stops in the middle of the call leaves the earlier commits in place:    *)
(* the store is then only read.                                            *)
(***************************************************************************)
\* LeanBlockTable::insert cut after its first commits transactions: the
\* slot index, the state root index, the block table
block_insert_commits(S, key, value, commits) ==
    [S EXCEPT
        !.slot_index = IF commits >= 1
                       THEN Put(@, value.message.block.slot, key) ELSE @,
        !.state_root_index = IF commits >= 2
                             THEN Put(@, value.message.block.state_root, key) ELSE @,
        !.block = IF commits >= 3 THEN Put(@, key, value) ELSE @]

\* the commits of one on_block call: three of the block insert, the state,
\* latest_justified, latest_finalized, and what follows the inserts
OnBlockCommits == 7

\* the store after the first commits of an on_block call that leaves the
\* store after when it runs to its end
on_block_commits(S, after, key, commits) ==
    IF commits >= OnBlockCommits THEN after
    ELSE [block_insert_commits(S, key, after.block[key], commits) EXCEPT
            !.lean_state = IF commits >= 4 THEN after.lean_state ELSE @,
            !.latest_justified = IF commits >= 5 THEN after.latest_justified ELSE @,
            !.latest_finalized = IF commits >= 6 THEN after.latest_finalized ELSE @]

\* on_block up to its first insert: a block that is refused or known ends
\* the call, any other block is about to be inserted
OnBlockBegin(input) ==
    LET root == block_root(input.reg, input.signed_block.message.block)
        done(r) ==
          IF root \in DOMAIN r.S.block /\ root \notin DOMAIN block
          THEN /\ writer' = [pc |-> "inserting", root |-> root, after |-> r.S,
                             status |-> r.status, commits |-> 0]
               /\ hashes' = r.reg
               /\ used' = [used EXCEPT !.steps = @ + 1]
               /\ result' = [op |-> "on_block_begin", changed |-> TRUE]
          ELSE /\ UNCHANGED <<writer, hashes, used>>
               /\ result' = [op |-> "on_block", status |-> r.status, commits |-> 0,
                             changed |-> TRUE]
    IN
    /\ writer = WriterIdle
    /\ used.steps < MaxSteps
    /\ done(on_block(input.reg, Store, input.signed_block, FALSE))
    /\ UNCHANGED <<state, storeVars, chain, validator>>

\* the next commit of the call, or a crash before it: the process stops
\* and the database keeps what was committed
OnBlockCommit(crashes) ==
    LET commits == writer.commits + 1
        last == commits = OnBlockCommits
    IN
    /\ writer.pc = "inserting"
    /\ IF crashes
       THEN /\ UNCHANGED storeVars
            /\ writer' = [pc |-> "stopped"]
            /\ result' = [op |-> "on_block", status |-> "crashed",
                          commits |-> writer.commits, changed |-> TRUE]
       ELSE /\ SetStore(on_block_commits(Store, writer.after, writer.root, commits))
            /\ writer' = IF last THEN WriterIdle ELSE [writer EXCEPT !.commits = commits]
            /\ result' = IF last
                         THEN [op |-> "on_block", status |-> writer.status,
                               commits |-> commits, changed |-> TRUE]
                         ELSE [op |-> "commit", commits |-> commits, changed |-> TRUE]
    /\ UNCHANGED <<hashes, state, used, chain, validator>>

\* roots a reader may ask for: those of the block table and of the indexes
ReadableRoots ==
    DOMAIN block \cup {slot_index[s] : s \in DOMAIN slot_index}
                 \cup {state_root_index[r] : r \in DOMAIN state_root_index}

\* a reader of the database looks a root up in the block table and in the
\* state table and reads the two checkpoints, all in one snapshot
Read(root) ==
    LET known == root \in DOMAIN lean_state IN
    /\ result.op # "read"
    /\ result' = [op |-> "read", root |-> root,
                  concurrent |-> writer.pc = "inserting",
                  block |-> root \in DOMAIN block,
                  state |-> known,
                  justified |-> known /\ latest_justified.slot
                                            >= lean_state[root].latest_justified.slot,
                  finalized |-> known /\ latest_finalized.slot
                                            >= lean_state[root].latest_finalized.slot,
                  changed |-> TRUE]
    /\ UNCHANGED <<hashes, state, used, storeVars, serviceVars>>

NextCommits ==
    \/ writer = WriterIdle /\ \E input \in BlockInputs(hashes, Store) : OnBlockBegin(input)
    \/ \E crashes \in BOOLEAN : OnBlockCommit(crashes)
    \/ \E root \in ReadableRoots : Read(root)
    \/ writer = WriterIdle /\ \E has_proposal \in BOOLEAN : TickInterval(has_proposal)

SpecCommits == Init /\ [][NextCommits]_vars

(***************************************************************************)
(* Claims on the atomicity of the inserts                                  *)
(***************************************************************************)
\* C25 as stated: in no reachable state, a state after a failure in the
\* middle of a block insert included, does slot_index or state_root_index
\* hold an entry for a block root that is absent from the block table.
C25_IndexedBlocksStored ==
    /\ \A s \in DOMAIN slot_index : slot_index[s] \in DOMAIN block
    /\ \A r \in DOMAIN state_root_index : state_root_index[r] \in DOMAIN block

\* C26 as stated: a reader that finds a block in the block table, while
\* on_block runs or after it, also finds the block's state in the state
\* table and the latest_justified and latest_finalized checkpoints no older
\* than those of that state.
C26_BlockReadWithState ==
    (result.op = "read" /\ result.block) =>
        /\ result.state
        /\ result.justified
        /\ result.finalized

(***************************************************************************)
(* Claims on on_tick                                                       *)
(***************************************************************************)
\* seconds since genesis offered to on_tick
MaxElapsed == 9

\* the store after tick_interval was called for each of the times
\* from .. to in increasing order, with has_proposal at the last one only
RECURSIVE TickedThrough(_, _, _, _)
TickedThrough(S, from, to, has_proposal) ==
    IF from > to THEN S
    ELSE TickedThrough(tick_interval(S, has_proposal /\ from = to).S,
                       from + 1, to, has_proposal)

C32_PackingFixedPoint ==
    (result.op = "produce_block_with_signatures" /\ result.ok) =>
       LET atts == result.block.body.attestations
           signatures == result.signatures
           complete(scratch) ==
             /\ scratch.ok
             /\ \A v \in DOMAIN latest_known :
                   (/\ latest_known[v].message.data.head.root \in DOMAIN block
                    /\ latest_known[v].message.data.source
                          = scratch.st.latest_justified)
                   => Contains(atts, latest_known[v].message)
       IN /\ \A i, j \in 1 .. Len(atts) : i # j => atts[i] # atts[j]
          /\ Len(signatures) = Len(atts)
          /\ \A i \in 1 .. Len(atts) :
                /\ atts[i].validator_id \in DOMAIN latest_known
                /\ latest_known[atts[i].validator_id].message = atts[i]
                /\ latest_known[atts[i].validator_id].signature = signatures[i]
          /\ complete(Transitioned(result.block))

\* a block was produced with two attestations of the pool in its body, the
\* pool iterated in descending order
C32_Witness ==
    /\ result.op = "produce_block_with_signatures"
    /\ result.ok
    /\ Len(result.block.body.attestations) = 2
    /\ result.block.body.attestations[1].validator_id
          > result.block.body.attestations[2].validator_id

(***************************************************************************)
(* get_attestation_target on chains with slots past the first slot that is *)
(* not justifiable after genesis                                           *)
(***************************************************************************)
MaxTargetSlot == 11     \* greatest slot of a block of the chain
MaxChain == 4           \* blocks of the chain after the anchor

\* the store is ticked to the slot and takes, through on_block, a block
\* without attestations that the slot's proposer built on the head
ChainBlock(slot) ==
    LET done(r) ==
          /\ r.status = "ok"
          /\ SetStore(r.S)
          /\ hashes' = r.reg
          /\ result' = [op |-> "chain_block", ok |-> TRUE, changed |-> TRUE]
        offered(P, offer) == done(on_block(offer.reg, P, offer.signed_block, FALSE))
        ticked(t) == offered(t.S, Offer(hashes, t.S, t.S.head, slot, <<>>))
    IN
    /\ result.op \in {"init", "chain_block"}
    /\ Cardinality(DOMAIN block) <= MaxChain
    /\ slot > block[head].message.block.slot
    /\ ticked(on_tick(Store, slot * SECONDS_PER_SLOT, FALSE))
    /\ UNCHANGED <<state, used, serviceVars>>

\* two validators vote for the root by gossip and update_safe_target runs
SafeTargetVoted(root) ==
    LET slot == block[root].message.block.slot
        done(r) ==
          /\ SetStore(r.S)
          /\ result' = [op |-> "safe_target_voted", ok |-> r.ok, changed |-> TRUE]
        second(a) == done(update_safe_target(a.S))
        first(a) == second(on_attestation(a.S, Vote(a.S, 1, root, slot), FALSE))
    IN
    /\ result.op = "chain_block"
    /\ root # AnchorRoot
    /\ first(on_attestation(Store, Vote(Store, 0, root, slot), FALSE))
    /\ UNCHANGED <<hashes, state, used, serviceVars>>

GetAttestationTarget ==
    LET done(r) ==
          result' = [op |-> "get_attestation_target", ok |-> r.ok,
                     target |-> r.target, changed |-> TRUE]
    IN
    /\ result.op \in {"chain_block", "safe_target_voted"}
    /\ done(get_attestation_target(Store))
    /\ UNCHANGED <<hashes, state, used, storeVars, serviceVars>>

NextTarget ==
    \/ \E slot \in 1 .. MaxTargetSlot : ChainBlock(slot)
    \/ \E root \in DOMAIN block : SafeTargetVoted(root)
    \/ GetAttestationTarget

SpecTarget == Init /\ [][NextTarget]_vars

\* the head and its ancestors, the head first
RECURSIVE AncestorsOf(_)
AncestorsOf(root) ==
    IF root \notin DOMAIN block THEN <<>>
    ELSE <<root>> \o AncestorsOf(block[root].message.block.parent_root)

SlotOf(root) == block[root].message.block.slot

ProducedAttestation(data) ==
    [message |-> Attestation(0, data), signature |-> "good"]

\* C34 as stated: in every reachable state of the store the data built by
\* produce_attestation_data has the stored latest_justified as source, the
\* stored head as head, and a source slot that is not above the target slot,
\* and the attestation made of it passes validate_attestation.
C34_ProducedDataValid ==
    LET built(r) ==
          r.ok =>
             /\ r.data.source = latest_justified
             /\ r.data.head = CheckpointOf(Store, head)
             /\ r.data.source.slot <= r.data.target.slot
             /\ validate_attestation(Store, ProducedAttestation(r.data)) = "none"
    IN built(produce_attestation_data(Store, time \div SECONDS_PER_SLOT))

\* the latest-known pool with the attestation counted as the validator's
\* latest vote, unless the pool holds a later vote of that validator
WithVote(known, attestation) ==
    IF attestation.validator_id \in DOMAIN known
       /\ known[attestation.validator_id].message.data.slot > attestation.data.slot
    THEN known
    ELSE Put(known, attestation.validator_id,
             [message |-> attestation, signature |-> "good"])

\* C35 as stated: when on_block has stored a new block and returned Ok, the
\* head it leaves is the head that LMD-GHOST computes from the latest known
\* votes with the vote of the block's proposer attestation among them.
C35_ProposerVoteCounted ==
    [][(/\ result'.op = "on_block"
        /\ result'.status = "ok"
        /\ DOMAIN block' # DOMAIN block)
       => LET root == CHOOSE r \in DOMAIN block' : r \notin DOMAIN block
              after == [block |-> block', lean_state |-> lean_state',
                        slot_index |-> slot_index',
                        state_root_index |-> state_root_index',
                        latest_known |-> latest_known', latest_new |-> latest_new',
                        latest_justified |-> latest_justified',
                        latest_finalized |-> latest_finalized', head |-> head',
                        safe_target |-> safe_target', time |-> time']
              counted(r) == r.ok /\ head' = r.S.head
          IN counted(update_head(
                [after EXCEPT !.latest_known =
                    WithVote(@, block'[root].message.proposer_attestation)]))]_vars

\* C36 as stated: the chain service passes has_proposal = TRUE to
\* tick_interval on the tick whose incremented store time is at interval 0
\* of its slot, and on no other tick.
C36_ProposalAtIntervalZero ==
    [][(result'.op = "chain_tick" /\ result'.fault # "tick_interval")
       => ((chain.tick_count % 4 = 1) <=> (current_interval(time + 1) = 0))]_vars

(***************************************************************************)
(* Forks at slots where CheckIfCanonicalCheckpoint reads the slot index    *)
(***************************************************************************)
MinForkSlot == 5        \* least slot of a block of the forks
MaxForkSlot == 7        \* greatest slot of a block of the forks
MaxForkBlocks == 3      \* blocks stored after the anchor

\* the store is ticked to the slot and takes, through on_block, a block
\* without attestations that the slot's proposer built on a stored parent
ForkBlock(parent_root, slot) ==
    LET done(r) ==
          /\ SetStore(r.S)
          /\ hashes' = IF DOMAIN r.S.block = DOMAIN block THEN hashes ELSE r.reg
          /\ result' = [op |-> "on_block", status |-> r.status, changed |-> TRUE]
        offered(P, offer) == done(on_block(offer.reg, P, offer.signed_block, FALSE))
        ticked(t) == offered(t.S, Offer(hashes, t.S, parent_root, slot, <<>>))
    IN
    /\ chain.receiver = <<>>
    /\ Cardinality(DOMAIN block) <= MaxForkBlocks
    /\ slot > block[parent_root].message.block.slot
    /\ ticked(on_tick(Store, slot * SECONDS_PER_SLOT, FALSE))
    /\ UNCHANGED <<state, used, serviceVars>>

\* a peer's checkpoint arrives at the chain service
CheckpointAsked(checkpoint) ==
    /\ chain.receiver = <<>>
    /\ result.op = "on_block"
    /\ chain' = [chain EXCEPT !.receiver =
                    <<[type |-> "CheckIfCanonicalCheckpoint", peer_id |-> 1,
                       checkpoint |-> checkpoint]>>]
    /\ result' = [op |-> "checkpoint_asked", changed |-> TRUE]
    /\ UNCHANGED <<hashes, state, used, storeVars, validator, writer>>

NextCanonical ==
    \/ \E parent_root \in DOMAIN block, slot \in MinForkSlot .. MaxForkSlot :
          ForkBlock(parent_root, slot)
    \/ \E root \in DOMAIN block : CheckpointAsked(CheckpointOf(Store, root))
    \/ \E order \in PoolOrders : ChainMessage(order)

SpecCanonical == Init /\ [][NextCanonical]_vars

\* C37 as stated: every entry of the slot index is the root of a block on
\* the chain from the head back to the anchor, whatever forks on_block has
\* stored, and a CheckIfCanonicalCheckpoint for a checkpoint at a slot from
\* 5 on whose slot is indexed is answered true only for a root on that chain.
C37_SlotIndexCanonical ==
    /\ \A s \in DOMAIN slot_index : Descends(Store, head, slot_index[s])
    /\ (/\ result.op = "chain_message"
        /\ result.message.type = "CheckIfCanonicalCheckpoint"
        /\ result.message.checkpoint.slot >= 5
        /\ result.message.checkpoint.slot \in DOMAIN slot_index
        /\ result.reply.is_canonical)
       => Descends(Store, head, result.message.checkpoint.root)

\* the walk from root that moves to the child with the greatest (weight,
\* slot, root) among the children of weight min_score or more, and stops at
\* a block without such a child
RECURSIVE SafeWalkFrom(_, _, _, _)
SafeWalkFrom(S, pool, root, min_score) ==
    LET heavy == {c \in ChildrenOf(S, root) : VotesFor(S, pool, c) >= min_score}
    IN IF heavy = {} THEN root
       ELSE SafeWalkFrom(S, pool, Heaviest(S, pool, heavy), min_score)

\* C38: in every reachable state of the store, a successful
\* update_safe_target stores as safe target the end of
\* the LMD-GHOST walk from latest_justified.root over the latest-new pool
\* with min_score = ceil(2 * |validators| / 3): the safe target is
\* latest_justified.root or a descendant of it, every block on the way from
\* below latest_justified.root down to the safe target has min_score or more
\* latest-new votes for itself or its descendants, and the pools, the head
\* and the rest of the store are as before.
C38_SafeTargetWalk ==
    LET min_score == (2 * NumValidators + 2) \div 3
        on_path(b, target) == /\ b # latest_justified.root
                              /\ Descends(Store, b, latest_justified.root)
                              /\ Descends(Store, target, b)
        stored(r) ==
          r.ok =>
             /\ r.S.safe_target
                   = SafeWalkFrom(Store, latest_new, latest_justified.root, min_score)
             /\ Descends(Store, r.S.safe_target, latest_justified.root)
             /\ \A b \in DOMAIN block :
                   on_path(b, r.S.safe_target)
                      => VotesFor(Store, latest_new, b) >= min_score
             /\ r.S = [Store EXCEPT !.safe_target = r.S.safe_target]
    IN Live => stored(update_safe_target(Store))

\* update_safe_target moves the safe target from latest_justified.root to a
\* block that has a child with too few votes, while the head is another
\* block and the latest-known pool holds a vote
C38_Witness ==
    LET moved(r) ==
          /\ r.ok
          /\ safe_target = latest_justified.root
          /\ r.S.safe_target # latest_justified.root
          /\ ChildrenOf(Store, r.S.safe_target) # {}
          /\ head # r.S.safe_target
    IN /\ Live
       /\ latest_known # EmptyTable
       /\ moved(update_safe_target(Store))

\* new blocks whose proposer attestation names an unknown head block, or is
\* cast in a slot after the slot of the store's time
BadProposerBlocks(reg, S) ==
    {[o EXCEPT !.signed_block.message.proposer_attestation.data.head.root =
                  UnknownRoot] : o \in FreshBlocks(reg, S)}
    \cup {[o EXCEPT !.signed_block.message.proposer_attestation.data.slot =
                       (S.time \div SECONDS_PER_SLOT) + 1] : o \in FreshBlocks(reg, S)}

\* C39 as stated: when on_block returns an error, whatever the reason (a
\* body attestation or the proposer attestation refused by on_attestation
\* among them), the block is not in the block table and its state is not in
\* the state table afterwards, and on_block of the same block on the store
\* it left processes the block again.
C39_FailedBlockNotStored ==
    Live =>
      \A input \in BlockInputs(hashes, Store) \cup BadProposerBlocks(hashes, Store),
         verify \in BOOLEAN :
         LET root == block_root(input.reg, input.signed_block.message.block)
             again(r) == on_block(r.reg, r.S, input.signed_block, verify).status
             absent(r) ==
               r.status \notin Accepted =>
                  /\ root \notin DOMAIN r.S.block
                  /\ root \notin DOMAIN r.S.lean_state
                  /\ again(r) # "known"
         IN absent(Offered(input, verify))

\* C40: in every state of the store left by on_block, on_attestation,
\* accept_new_attestations, update_safe_target and the ticks, whether they
\* returned Ok or an error, the head is in the block table, its state is in
\* the state table, and the head is latest_justified.root or a descendant
\* of it.
C40_HeadOnJustified ==
    /\ head \in DOMAIN block
    /\ head \in DOMAIN lean_state
    /\ Descends(Store, head, latest_justified.root)

====
